---- MODULE Spec2Model ----
(***************************************************************************)
(* Model of tools/strip_soundfont.py: the SoundFont (SF2) subsetter.       *)
(*                                                                         *)
(* A parsed bank (SF2File) is a record of tables.  Python lists are        *)
(* modelled as TLA+ sequences; a Python index i is position i + 1.         *)
(* Python objects that the code shares between the source and the output   *)
(* bank are modelled by values plus the `alias` bookkeeping of the source  *)
(* positions the output records are the same objects as.                   *)
(***************************************************************************)
EXTENDS Integers, Sequences, FiniteSets, TLC

VARIABLES
    pc,        \* position of the pipeline: parsed, subset, failed, written, reparsed
    orig,      \* the bank exactly as parse_sf2 returned it (the file on disk)
    sf2,       \* the parsed source bank object (subset_sf2 writes into its records)
    needed,    \* the wanted set of <<bank, program>> pairs
    out,       \* the bank returned by subset_sf2, or NoModel
    alias,     \* which source records the records of `out` are (object identity)
    warned,    \* TRUE once "Warning: No matching presets found!" was printed
    file,      \* the container written by write_sf2, or NoFile
    wrote,     \* which bank write_sf2 serialised: "none", "source" or "subset"
    back,      \* the bank parsed back from `file`, or NoModel
    args,      \* main's parsed command line: the --extra strings and --dry-run
    fs,        \* what main finds on disk: the input container, the MIDI directory
    rc,        \* how main ended: Running, its return value, or Raised
    log,       \* the effects main has had so far, in order
    chunk,     \* the tag and payload handed to write_chunk
    first,     \* the bank an earlier subset_sf2 call on the same source returned
    reader,    \* parse_sf2's read position in its input and the chunks ahead of it
    grid       \* map_tool's Map: its width, height and rows of cells, and the last call

vars == <<pc, orig, sf2, needed, out, alias, warned, file, wrote, back, args, fs, rc, log, chunk, first, reader, grid>>

\* the state of main and of the chunk writer, which subset_sf2 leaves alone
cli == <<args, fs, rc, log, chunk>>

\* the state only the repeated call, the chunk walk and the map tool touch
aux == <<first, reader, grid>>

-----------------------------------------------------------------------------
(* Bounds of the input space.                                              *)

NumPresets == 2      \* real (non-terminal) presets of the input bank
NumInsts   == 2      \* real instruments of the input bank
NumSamples == 3      \* real samples of the input bank

-----------------------------------------------------------------------------
(* Program constants.                                                      *)

GEN_INSTRUMENT == 41
GEN_SAMPLE_ID  == 53
GEN_KEY_RANGE  == 43

NameLen == 20        \* width of the name field of phdr / inst / shdr records
U16     == 65536     \* struct 'H' : 0 .. 2^16 - 1

NoModel == [none |-> TRUE]
NoFile  == [none |-> TRUE]

-----------------------------------------------------------------------------
(* Python list / bytes primitives.                                         *)

\* lst[i] for a Python index i >= 0
At(lst, i) == lst[i + 1]

\* range(a, b)
Range(a, b) == a .. (b - 1)

\* seq[a:b] for 0 <= a, 0 <= b: clamps to the length, empty when a >= b
Slice(seq, a, b) ==
    LET hi == IF b < Len(seq) THEN b ELSE Len(seq)
    IN  IF a >= hi THEN << >> ELSE SubSeq(seq, a + 1, hi)

Min(S) == CHOOSE x \in S : \A y \in S : x <= y

Max(S) == CHOOSE x \in S : \A y \in S : x >= y

\* a sort that puts the largest first
RECURSIVE SortedDescending(_)
SortedDescending(S) ==
    IF S = {} THEN << >> ELSE <<Max(S)>> \o SortedDescending(S \ {Max(S)})

\* sorted(S) for a finite set of integers
RECURSIVE Sorted(_)
Sorted(S) == IF S = {} THEN << >> ELSE <<Min(S)>> \o Sorted(S \ {Min(S)})

\* the positions 0 .. n-1 of a list, as a set
Indices(lst) == 0 .. (Len(lst) - 1)

-----------------------------------------------------------------------------
(* Record constructors (the dataclasses, with their runtime defaults).     *)

SF2Sample(name, start, end, loop_start, loop_end, sample_rate, original_pitch, pitch_correction, sample_link, sample_type) ==
    [name |-> name, start |-> start, end |-> end,
     loop_start |-> loop_start, loop_end |-> loop_end,
     sample_rate |-> sample_rate, original_pitch |-> original_pitch,
     pitch_correction |-> pitch_correction,
     sample_link |-> sample_link, sample_type |-> sample_type,
     new_index |-> -1, new_start |-> 0, new_end |-> 0]

SF2Generator(oper, amount) == [oper |-> oper, amount |-> amount]

SF2Modulator(src, dest, amount, amt_src, transform) ==
    [src |-> src, dest |-> dest, amount |-> amount,
     amt_src |-> amt_src, transform |-> transform]

SF2Bag(gen_idx, mod_idx) == [gen_idx |-> gen_idx, mod_idx |-> mod_idx]

SF2Inst(name, bag_idx) ==
    [name |-> name, bag_idx |-> bag_idx, new_index |-> -1, new_bag_idx |-> 0]

SF2Preset(name, preset, bank, bag_idx, library, genre, morphology) ==
    [name |-> name, preset |-> preset, bank |-> bank, bag_idx |-> bag_idx,
     library |-> library, genre |-> genre, morphology |-> morphology,
     new_bag_idx |-> 0]

SF2File ==
    [info_chunks |-> << >>, sample_data |-> << >>, sample_data_24 |-> << >>,
     presets |-> << >>, preset_bags |-> << >>, preset_mods |-> << >>,
     preset_gens |-> << >>,
     instruments |-> << >>, inst_bags |-> << >>, inst_mods |-> << >>,
     inst_gens |-> << >>,
     samples |-> << >>]

-----------------------------------------------------------------------------
(* The input space: banks as parse_sf2 returns them for a container whose  *)
(* tables follow the format's range-by-subtraction layout.  Every record   *)
(* carries the runtime defaults of its dataclass.                          *)

Keys == {<<0, 0>>, <<0, 1>>}               \* <<bank, program>> pairs in play

NoZone == 0 - 1                            \* marks a preset without a zone
\* a real preset: its <<bank, program>> and its zone (no zone, or one zone
\* that references instrument `inst`; NumInsts is the terminal instrument)
PresetChoices == [key : Keys, inst : {NoZone} \cup (0 .. NumInsts)]
\* real instrument i: the sample its single zone references
InstChoices(i) == {i % NumSamples, (i + 1) % NumSamples}
\* real sample i: its linked-sample index, 0 for none (NumSamples is the
\* terminal sample; a sample is never linked to itself)
LinkChoices(i) == {l \in 0 .. NumSamples : l = 0 \/ l # i}
\* how the samples lie in the PCM blob
Layouts       == {"disjoint", "shared"}

PcmLen == 2 * NumSamples + 2               \* frames in the input PCM blob
PcmBlob == [k \in 1 .. (2 * PcmLen) |-> k]  \* two bytes per frame

InfoChunks == << [id |-> "ifil", data |-> <<2, 0, 1, 0>>],
                 [id |-> "INAM", data |-> <<66, 75, 0>>] >>

PresetName == <<80>>
InstName(i) == <<73, 48 + i>>
SampleName(i) == <<83, 48 + i>>
EOP == <<69, 79, 80>>
EOI == <<69, 79, 73>>
EOS == <<69, 79, 83>>

\* number of zones of the real presets before position i (1-based)
RECURSIVE ZonesBefore(_, _)
ZonesBefore(pd, i) ==
    IF i <= 1 THEN 0
    ELSE ZonesBefore(pd, i - 1) + (IF pd[i - 1].inst = NoZone THEN 0 ELSE 1)

RECURSIVE PresetZoneGens(_, _)
PresetZoneGens(pd, i) ==
    IF i > Len(pd) THEN << >>
    ELSE (IF pd[i].inst = NoZone THEN << >>
          ELSE << SF2Generator(GEN_KEY_RANGE, 127 * 256),
                  SF2Generator(GEN_INSTRUMENT, pd[i].inst) >>)
         \o PresetZoneGens(pd, i + 1)

InputPresets(pd) ==
    [i \in 1 .. Len(pd) |->
        SF2Preset(PresetName, pd[i].key[2], pd[i].key[1], ZonesBefore(pd, i), 0, 0, 0)]
    \o << SF2Preset(EOP, 0, 0, ZonesBefore(pd, Len(pd) + 1), 0, 0, 0) >>

InputSample(i, link, layout) ==
    IF layout = "disjoint"
    THEN SF2Sample(SampleName(i), 2 * i, 2 * i + 2, 2 * i, 2 * i + 1,
                   22050, 60, 0, link, 1)
    ELSE SF2Sample(SampleName(i), 0, PcmLen, 0, PcmLen - 1,
                   22050, 60, 0, link, 1)

\* the bank parse_sf2 builds from such a container
MakeBank(pd, irefs, links, layout) ==
    LET nz == ZonesBefore(pd, Len(pd) + 1)
        ni == Len(irefs)
    IN  [info_chunks    |-> InfoChunks,
         sample_data    |-> PcmBlob,
         sample_data_24 |-> << >>,
         presets        |-> InputPresets(pd),
         preset_bags    |-> [b \in 1 .. (nz + 1) |-> SF2Bag(2 * (b - 1), 0)],
         preset_mods    |-> << SF2Modulator(0, 0, 0, 0, 0) >>,
         preset_gens    |-> PresetZoneGens(pd, 1) \o << SF2Generator(0, 0) >>,
         instruments    |-> [i \in 1 .. ni |-> SF2Inst(InstName(i - 1), i - 1)]
                            \o << SF2Inst(EOI, ni) >>,
         inst_bags      |-> [b \in 1 .. (ni + 1) |-> SF2Bag(2 * (b - 1), b - 1)],
         inst_mods      |-> [m \in 1 .. ni |-> SF2Modulator(2, 48, 10 + m, 0, 0)]
                            \o << SF2Modulator(0, 0, 0, 0, 0) >>,
         inst_gens      |-> [g \in 1 .. (2 * ni) |->
                               IF g % 2 = 1
                               THEN SF2Generator(GEN_KEY_RANGE, 127 * 256)
                               ELSE SF2Generator(GEN_SAMPLE_ID, irefs[g \div 2])]
                            \o << SF2Generator(0, 0) >>,
         samples        |-> [s \in 1 .. Len(links) |->
                               InputSample(s - 1, links[s], layout)]
                            \o << SF2Sample(EOS, 0, 0, 0, 0, 0, 0, 0, 0, 0) >>]

-----------------------------------------------------------------------------
(* subset_sf2, pass 1: which presets, instruments and samples to keep.     *)

\* lst.index(x): the first position whose record equals x field by field
ListIndex(lst, x) == Min({j \in Indices(lst) : At(lst, j) = x})

\* the kept presets, as source positions in file order (terminal skipped)
KeptPresets(src, wanted) ==
    Sorted({i \in 0 .. (Len(src.presets) - 2) :
              <<At(src.presets, i).bank, At(src.presets, i).preset>> \in wanted})

\* end of the generator / modulator range of bag bag_idx
GenEnd(bags, gens, bag_idx) ==
    IF bag_idx + 1 < Len(bags) THEN At(bags, bag_idx + 1).gen_idx ELSE Len(gens)

ModEnd(bags, mods, bag_idx) ==
    IF bag_idx + 1 < Len(bags) THEN At(bags, bag_idx + 1).mod_idx ELSE Len(mods)

\* the bag range the code walks for the preset object at position i
PresetBags(presets, i) ==
    Range(At(presets, i).bag_idx,
          At(presets, ListIndex(presets, At(presets, i)) + 1).bag_idx)

\* the amounts of the generators with operator `oper` in the given bags
RefsInBags(bags, gens, bagset, oper) ==
    UNION { { At(gens, g).amount :
                g \in { h \in Range(At(bags, b).gen_idx, GenEnd(bags, gens, b)) :
                          At(gens, h).oper = oper } } : b \in bagset }

\* a scan that walks the bags of every real preset, kept or not
KeptInstIndicesOfAllPresets(src, kept) ==
    UNION { RefsInBags(src.preset_bags, src.preset_gens,
                       PresetBags(src.presets, i), GEN_INSTRUMENT)
            : i \in 0 .. (Len(src.presets) - 2) }

KeptInstIndices(src, kept) ==
    UNION { RefsInBags(src.preset_bags, src.preset_gens,
                       PresetBags(src.presets, kept[k]), GEN_INSTRUMENT)
            : k \in 1 .. Len(kept) }

\* the bag range walked for instrument inst_idx in the first pass
InstBagsScan(src, inst_idx) ==
    Range(At(src.instruments, inst_idx).bag_idx,
          IF inst_idx + 1 < Len(src.instruments)
          THEN At(src.instruments, inst_idx + 1).bag_idx
          ELSE Len(src.inst_bags))

\* a referenced sample and, for stereo, its linked sample
WithLinked(src, sample_idx) ==
    LET link == At(src.samples, sample_idx).sample_link
    IN  {sample_idx} \cup
        (IF link # 0 /\ link < Len(src.samples) THEN {link} ELSE {})

KeptSampleIndices(src, kept_inst) ==
    UNION { WithLinked(src, a) :
              a \in UNION { RefsInBags(src.inst_bags, src.inst_gens,
                                       InstBagsScan(src, i), GEN_SAMPLE_ID)
                            : i \in kept_inst } }

\* an index error is raised in the first pass (nothing was written yet)
ScanFails(src, kept) ==
    \/ \E i \in KeptInstIndices(src, kept) : i >= Len(src.instruments)
    \/ \E i \in KeptInstIndices(src, kept) \cap Indices(src.instruments) :
         \E a \in RefsInBags(src.inst_bags, src.inst_gens,
                             InstBagsScan(src, i), GEN_SAMPLE_ID) :
            a >= Len(src.samples)

\* old index -> new index, for the sorted list of kept old indices
IndexMap(sorted) ==
    [old \in {sorted[k] : k \in 1 .. Len(sorted)} |->
        (CHOOSE k \in 1 .. Len(sorted) : sorted[k] = old) - 1]

-----------------------------------------------------------------------------
(* subset_sf2, pass 2: build the output tables.  The kept sample,          *)
(* instrument and preset records are the source objects themselves: the    *)
(* code writes their runtime fields (and the samples' links) in place and  *)
(* appends the same objects to the output lists.                           *)

\* the loop over the sorted kept samples, from its k-th iteration on
RECURSIVE CopySamples(_, _, _, _, _)
CopySamples(blob, sorted, k, samples, data) ==
    IF k > Len(sorted) THEN [samples |-> samples, data |-> data]
    ELSE LET old   == sorted[k]
             s     == At(samples, old)
             grown == data \o Slice(blob, s.start * 2, s.end * 2)
             s2    == [s EXCEPT !.new_index = k - 1,
                                !.new_start = Len(data) \div 2,
                                !.new_end   = Len(grown) \div 2]
         IN  CopySamples(blob, sorted, k + 1,
                         [samples EXCEPT ![old + 1] = s2], grown)

TerminalSample(data) ==
    [SF2Sample(EOS, 0, 0, 0, 0, 0, 0, 0, 0, 0)
        EXCEPT !.new_start = Len(data) \div 2, !.new_end = Len(data) \div 2]

\* the stereo link of one kept sample, rewritten in place
RelinkSample(s, map) ==
    [s EXCEPT !.sample_link =
        IF s.sample_link \in DOMAIN map THEN map[s.sample_link] ELSE 0]

Relink(samples, map) ==
    [i \in 1 .. Len(samples) |->
        IF (i - 1) \in DOMAIN map THEN RelinkSample(samples[i], map)
        ELSE samples[i]]

\* a copy that leaves every amount as it was in the source
RemapGenUnmapped(gen, oper, map) == SF2Generator(gen.oper, gen.amount)

\* a copied generator, its amount remapped when it is a reference
RemapGen(gen, oper, map) ==
    IF gen.oper = oper /\ gen.amount \in DOMAIN map
    THEN SF2Generator(gen.oper, map[gen.amount])
    ELSE SF2Generator(gen.oper, gen.amount)

\* the loop over the bags b .. bag_end - 1 of one preset or instrument
RECURSIVE CopyBags(_, _, _, _, _, _, _, _)
CopyBags(bags, gens, mods, b, bag_end, oper, map, acc) ==
    IF b >= bag_end THEN acc
    ELSE LET old_bag == At(bags, b)
             gen_ids == Sorted(Range(old_bag.gen_idx, GenEnd(bags, gens, b)))
             mod_ids == Sorted(Range(old_bag.mod_idx, ModEnd(bags, mods, b)))
         IN  CopyBags(bags, gens, mods, b + 1, bag_end, oper, map,
                [bags |-> Append(acc.bags, SF2Bag(Len(acc.gens), Len(acc.mods))),
                 gens |-> acc.gens \o
                          [g \in 1 .. Len(gen_ids) |->
                              RemapGen(At(gens, gen_ids[g]), oper, map)],
                 mods |-> acc.mods \o
                          [m \in 1 .. Len(mod_ids) |-> At(mods, mod_ids[m])]])

\* the loop over the sorted kept instruments, from its k-th iteration on;
\* instruments[old_idx + 1] raises an index error for the last record
RECURSIVE CopyInsts(_, _, _, _, _)
CopyInsts(src, smap, sorted, k, acc) ==
    IF k > Len(sorted) THEN acc
    ELSE LET old   == sorted[k]
             inst  == [At(acc.instruments, old)
                          EXCEPT !.new_index = k - 1,
                                 !.new_bag_idx = Len(acc.bags)]
             insts == [acc.instruments EXCEPT ![old + 1] = inst]
         IN  IF old + 1 >= Len(insts)
             THEN [acc EXCEPT !.instruments = insts, !.failed = TRUE]
             ELSE LET got == CopyBags(src.inst_bags, src.inst_gens, src.inst_mods,
                                      inst.bag_idx, At(insts, old + 1).bag_idx,
                                      GEN_SAMPLE_ID, smap,
                                      [bags |-> acc.bags, gens |-> acc.gens,
                                       mods |-> acc.mods])
                  IN  CopyInsts(src, smap, sorted, k + 1,
                                [instruments |-> insts, bags |-> got.bags,
                                 gens |-> got.gens, mods |-> got.mods,
                                 failed |-> FALSE])

\* the loop over the kept presets, from its k-th iteration on; the preset's
\* position is looked up again with index() after new_bag_idx was written
RECURSIVE CopyPresets(_, _, _, _, _)
CopyPresets(src, imap, kept, k, acc) ==
    IF k > Len(kept) THEN acc
    ELSE LET i       == kept[k]
             preset  == [At(acc.presets, i) EXCEPT !.new_bag_idx = Len(acc.bags)]
             presets == [acc.presets EXCEPT ![i + 1] = preset]
             preset_idx == ListIndex(presets, preset)
             got == CopyBags(src.preset_bags, src.preset_gens, src.preset_mods,
                             preset.bag_idx, At(presets, preset_idx + 1).bag_idx,
                             GEN_INSTRUMENT, imap,
                             [bags |-> acc.bags, gens |-> acc.gens,
                              mods |-> acc.mods])
         IN  CopyPresets(src, imap, kept, k + 1,
                         [presets |-> presets, bags |-> got.bags,
                          gens |-> got.gens, mods |-> got.mods])

-----------------------------------------------------------------------------
(* subset_sf2 as a whole.  Its result names the returned bank, the source  *)
(* bank as the call left it, and whether the warning was printed; ok is    *)
(* FALSE when the call ended in an IndexError (no bank is returned).       *)

NoAlias == [samples |-> << >>, instruments |-> << >>, presets |-> << >>]

\* the source objects at the given positions, as they are on return
Picked(table, positions) ==
    [k \in 1 .. Len(positions) |-> At(table, positions[k])]

subset_sf2(src, wanted) ==
    LET kept == KeptPresets(src, wanted)
        base == [SF2File EXCEPT !.info_chunks = src.info_chunks]
    IN
    IF kept = << >>
    THEN [ok |-> TRUE, warned |-> TRUE, src |-> src, out |-> base,
          alias |-> NoAlias]
    ELSE IF ScanFails(src, kept)
    THEN [ok |-> FALSE, warned |-> FALSE, src |-> src, out |-> NoModel,
          alias |-> NoAlias]
    ELSE
    LET kept_inst_indices    == KeptInstIndices(src, kept)
        kept_sample_indices  == KeptSampleIndices(src, kept_inst_indices)
        sorted_sample_indices == Sorted(kept_sample_indices)
        sample_index_map     == IndexMap(sorted_sample_indices)
        cs       == CopySamples(src.sample_data, sorted_sample_indices, 1,
                                src.samples, << >>)
        samples2 == Relink(cs.samples, sample_index_map)
        sorted_inst_indices  == Sorted(kept_inst_indices)
        inst_index_map       == IndexMap(sorted_inst_indices)
        ci == CopyInsts(src, sample_index_map, sorted_inst_indices, 1,
                        [instruments |-> src.instruments, bags |-> << >>,
                         gens |-> << >>, mods |-> << >>, failed |-> FALSE])
    IN
    IF ci.failed
    THEN [ok |-> FALSE, warned |-> FALSE,
          src |-> [src EXCEPT !.samples = samples2,
                              !.instruments = ci.instruments],
          out |-> NoModel, alias |-> NoAlias]
    ELSE
    LET terminal_inst == [SF2Inst(EOI, 0) EXCEPT !.new_bag_idx = Len(ci.bags)]
        cp == CopyPresets(src, inst_index_map, kept, 1,
                          [presets |-> src.presets, bags |-> << >>,
                           gens |-> << >>, mods |-> << >>])
        terminal_preset ==
            [SF2Preset(EOP, 0, 0, 0, 0, 0, 0) EXCEPT !.new_bag_idx = Len(cp.bags)]
    IN  [ok |-> TRUE, warned |-> FALSE,
         src |-> [src EXCEPT !.samples = samples2,
                             !.instruments = ci.instruments,
                             !.presets = cp.presets],
         out |-> [base EXCEPT
             !.sample_data = cs.data,
             !.samples     = Append(Picked(samples2, sorted_sample_indices),
                                    TerminalSample(cs.data)),
             !.instruments = Append(Picked(ci.instruments, sorted_inst_indices),
                                    terminal_inst),
             !.inst_bags   = Append(ci.bags, SF2Bag(Len(ci.gens), Len(ci.mods))),
             !.inst_gens   = Append(ci.gens, SF2Generator(0, 0)),
             !.inst_mods   = Append(ci.mods, SF2Modulator(0, 0, 0, 0, 0)),
             !.presets     = Append(Picked(cp.presets, kept), terminal_preset),
             !.preset_bags = Append(cp.bags, SF2Bag(Len(cp.gens), Len(cp.mods))),
             !.preset_gens = Append(cp.gens, SF2Generator(0, 0)),
             !.preset_mods = Append(cp.mods, SF2Modulator(0, 0, 0, 0, 0))],
         alias |-> [samples |-> sorted_sample_indices,
                    instruments |-> sorted_inst_indices,
                    presets |-> kept]]

-----------------------------------------------------------------------------
(* Record serialisation (to_bytes / from_bytes).  A serialised record is   *)
(* the tuple of fields struct.pack lays out, each within its width; the    *)
(* name is cut and zero-padded to 20 bytes.                                *)

Zeros(n) == [k \in 1 .. n |-> 0]

\* name.encode('latin-1')[:20].ljust(20, b'\x00')
NameField(name) ==
    LET cut == Slice(name, 0, NameLen) IN cut \o Zeros(NameLen - Len(cut))

\* data[0:20].rstrip(b'\x00')
RECURSIVE RStrip(_)
RStrip(bytes) ==
    IF bytes # << >> /\ bytes[Len(bytes)] = 0
    THEN RStrip(SubSeq(bytes, 1, Len(bytes) - 1)) ELSE bytes

\* struct.pack raises struct.error for a value outside the field's range
\* ('I' and 'L' end at 2^32 - 1, above every value of this model)
FitsH(v) == 0 <= v /\ v < U16
FitsI(v) == 0 <= v
FitsB(v) == 0 <= v /\ v < 256
Fitsh(v) == 0 - 32768 <= v /\ v < 32768

SampleToBytes(s) ==
    [name |-> NameField(s.name),
     f |-> << s.new_start, s.new_end,
              s.new_start + (s.loop_start - s.start),
              s.new_start + (s.loop_end - s.start),
              s.sample_rate, s.original_pitch, s.pitch_correction,
              s.sample_link, s.sample_type >>]

SamplePacks(s) ==
    LET f == SampleToBytes(s).f
    IN  /\ \A k \in 1 .. 5 : FitsI(f[k])
        /\ FitsB(f[6]) /\ FitsB(f[7]) /\ FitsH(f[8]) /\ FitsH(f[9])

SampleFromBytes(w) ==
    SF2Sample(RStrip(w.name), w.f[1], w.f[2], w.f[3], w.f[4], w.f[5],
              w.f[6], w.f[7], w.f[8], w.f[9])

GenToBytes(g) == <<g.oper, g.amount>>
GenPacks(g) == FitsH(g.oper) /\ FitsH(g.amount)
GenFromBytes(w) == SF2Generator(w[1], w[2])

ModToBytes(m) == <<m.src, m.dest, m.amount, m.amt_src, m.transform>>
ModPacks(m) ==
    FitsH(m.src) /\ FitsH(m.dest) /\ Fitsh(m.amount) /\ FitsH(m.amt_src)
    /\ FitsH(m.transform)
ModFromBytes(w) == SF2Modulator(w[1], w[2], w[3], w[4], w[5])

BagToBytes(b) == <<b.gen_idx, b.mod_idx>>
BagPacks(b) == FitsH(b.gen_idx) /\ FitsH(b.mod_idx)
BagFromBytes(w) == SF2Bag(w[1], w[2])

InstToBytes(i) == [name |-> NameField(i.name), f |-> <<i.new_bag_idx>>]
InstPacks(i) == FitsH(i.new_bag_idx)
InstFromBytes(w) == SF2Inst(RStrip(w.name), w.f[1])

PresetToBytes(p) ==
    [name |-> NameField(p.name),
     f |-> <<p.preset, p.bank, p.new_bag_idx, p.library, p.genre, p.morphology>>]
PresetPacks(p) ==
    FitsH(p.preset) /\ FitsH(p.bank) /\ FitsH(p.new_bag_idx)
    /\ FitsI(p.library) /\ FitsI(p.genre) /\ FitsI(p.morphology)
PresetFromBytes(w) ==
    SF2Preset(RStrip(w.name), w.f[1], w.f[2], w.f[3], w.f[4], w.f[5], w.f[6])

-----------------------------------------------------------------------------
(* write_sf2 and parse_sf2 over a container held as its chunks: a chunk    *)
(* is its tag, its length field, its payload and its pad bytes.  The       *)
(* payload of a record chunk is the list of its serialised records.        *)

PHDR_SIZE == 38
BAG_SIZE  == 4
MOD_SIZE  == 10
GEN_SIZE  == 4
INST_SIZE == 22
SHDR_SIZE == 46

\* tag + length + payload bytes, padded to even when `padded`
ByteChunk(id, data, padded) ==
    [id |-> id, size |-> Len(data), data |-> data,
     pad |-> IF padded /\ Len(data) % 2 = 1 THEN 1 ELSE 0]

RecordChunk(id, recs, recsize) ==
    [id |-> id, size |-> recsize * Len(recs), data |-> recs, pad |-> 0]

\* a sum that leaves the pad bytes out
RECURSIVE SumBytesUnpadded(_, _)
SumBytesUnpadded(chunks, k) ==
    IF k > Len(chunks) THEN 0
    ELSE 8 + chunks[k].size + SumBytesUnpadded(chunks, k + 1)

RECURSIVE SumBytes(_, _)
SumBytes(chunks, k) ==
    IF k > Len(chunks) THEN 0
    ELSE 8 + chunks[k].size + chunks[k].pad + SumBytes(chunks, k + 1)

\* b'INFO' + ..., wrapped by write_chunk(f, 'LIST', ...)
ListChunk(type, subs) ==
    LET n == 4 + SumBytes(subs, 1)
    IN  [id |-> "LIST", size |-> n, type |-> type, subs |-> subs,
         pad |-> n % 2]

\* every struct.pack of write_sf2 succeeds
Packs(m) ==
    /\ \A k \in DOMAIN m.presets     : PresetPacks(m.presets[k])
    /\ \A k \in DOMAIN m.preset_bags : BagPacks(m.preset_bags[k])
    /\ \A k \in DOMAIN m.preset_mods : ModPacks(m.preset_mods[k])
    /\ \A k \in DOMAIN m.preset_gens : GenPacks(m.preset_gens[k])
    /\ \A k \in DOMAIN m.instruments : InstPacks(m.instruments[k])
    /\ \A k \in DOMAIN m.inst_bags   : BagPacks(m.inst_bags[k])
    /\ \A k \in DOMAIN m.inst_mods   : ModPacks(m.inst_mods[k])
    /\ \A k \in DOMAIN m.inst_gens   : GenPacks(m.inst_gens[k])
    /\ \A k \in DOMAIN m.samples     : SamplePacks(m.samples[k])

\* a writer that drops the zero bytes a payload ends with
InfoSubStripped(c) == ByteChunk(c.id, RStrip(c.data), TRUE)

\* one metadata entry as write_sf2 lays it out: id, length, bytes, pad
InfoSub(c) == ByteChunk(c.id, c.data, TRUE)

\* the container write_sf2 writes for bank m (when every pack succeeds)
write_sf2(m) ==
    LET info_list == ListChunk("INFO", [k \in 1 .. Len(m.info_chunks) |-> InfoSub(m.info_chunks[k])])
        sdta_list == ListChunk("sdta", << ByteChunk("smpl", m.sample_data, TRUE) >>)
        pdta_list == ListChunk("pdta",
            << RecordChunk("phdr", [k \in 1 .. Len(m.presets) |-> PresetToBytes(m.presets[k])], PHDR_SIZE),
               RecordChunk("pbag", [k \in 1 .. Len(m.preset_bags) |-> BagToBytes(m.preset_bags[k])], BAG_SIZE),
               RecordChunk("pmod", [k \in 1 .. Len(m.preset_mods) |-> ModToBytes(m.preset_mods[k])], MOD_SIZE),
               RecordChunk("pgen", [k \in 1 .. Len(m.preset_gens) |-> GenToBytes(m.preset_gens[k])], GEN_SIZE),
               RecordChunk("inst", [k \in 1 .. Len(m.instruments) |-> InstToBytes(m.instruments[k])], INST_SIZE),
               RecordChunk("ibag", [k \in 1 .. Len(m.inst_bags) |-> BagToBytes(m.inst_bags[k])], BAG_SIZE),
               RecordChunk("imod", [k \in 1 .. Len(m.inst_mods) |-> ModToBytes(m.inst_mods[k])], MOD_SIZE),
               RecordChunk("igen", [k \in 1 .. Len(m.inst_gens) |-> GenToBytes(m.inst_gens[k])], GEN_SIZE),
               RecordChunk("shdr", [k \in 1 .. Len(m.samples) |-> SampleToBytes(m.samples[k])], SHDR_SIZE) >>)
        lists == <<info_list, sdta_list, pdta_list>>
    IN  [riff |-> "RIFF", size |-> 4 + SumBytes(lists, 1), form |-> "sfbk",
         lists |-> lists]

\* sf2.info_chunks[info_id] = info_data, on an insertion-ordered dict
DictSet(d, id, data) ==
    IF \E k \in DOMAIN d : d[k].id = id
    THEN [k \in DOMAIN d |-> IF d[k].id = id THEN [id |-> id, data |-> data]
                             ELSE d[k]]
    ELSE Append(d, [id |-> id, data |-> data])

\* the lengths of the slices pdta_data[i:i+recsize], i in range(0, size, recsize)
SliceLens(size, recsize) ==
    [k \in 1 .. ((size + recsize - 1) \div recsize) |->
        IF k * recsize <= size THEN recsize ELSE size - (k - 1) * recsize]

\* an unpack that takes whatever bytes the slice has
UnpacksShort(len, skip, need) == TRUE

\* struct.unpack(fmt, data[skip:skip+need]) on a slice of `len` bytes: the
\* buffer must have exactly the `need` bytes of the format, else struct.error
Unpacks(len, skip, need) ==
    (IF len > skip THEN (IF len - skip < need THEN len - skip ELSE need) ELSE 0) = need

\* <<bytes of the name field, record size>> of the record chunks of pdta
RecordLayout(id) ==
    CASE id = "phdr" -> <<NameLen, PHDR_SIZE>>
      [] id = "pbag" -> <<0, BAG_SIZE>>
      [] id = "pmod" -> <<0, MOD_SIZE>>
      [] id = "pgen" -> <<0, GEN_SIZE>>
      [] id = "inst" -> <<NameLen, INST_SIZE>>
      [] id = "ibag" -> <<0, BAG_SIZE>>
      [] id = "imod" -> <<0, MOD_SIZE>>
      [] id = "igen" -> <<0, GEN_SIZE>>
      [] id = "shdr" -> <<NameLen, SHDR_SIZE>>
      [] OTHER -> << >>

\* every from_bytes call of the loop over chunk c returns (none raises)
FromBytesOk(c) ==
    LET lay == RecordLayout(c.id)
    IN  lay # << >> =>
          \A k \in DOMAIN SliceLens(c.size, lay[2]) :
              Unpacks(SliceLens(c.size, lay[2])[k], lay[1], lay[2] - lay[1])

\* one sub-chunk of a list of the given type, read into bank m; NoModel
\* when a from_bytes raised
ParseSub(m, type, c) ==
    IF type = "pdta" /\ ~FromBytesOk(c) THEN NoModel ELSE
    IF type = "INFO" THEN [m EXCEPT !.info_chunks = DictSet(@, c.id, c.data)]
    ELSE IF type = "sdta" THEN
        IF c.id = "smpl" THEN [m EXCEPT !.sample_data = c.data]
        ELSE IF c.id = "sm24" THEN [m EXCEPT !.sample_data_24 = c.data]
        ELSE m
    ELSE IF type = "pdta" THEN
        IF c.id = "phdr" THEN
            [m EXCEPT !.presets = @ \o [k \in 1 .. Len(c.data) |-> PresetFromBytes(c.data[k])]]
        ELSE IF c.id = "pbag" THEN
            [m EXCEPT !.preset_bags = @ \o [k \in 1 .. Len(c.data) |-> BagFromBytes(c.data[k])]]
        ELSE IF c.id = "pmod" THEN
            [m EXCEPT !.preset_mods = @ \o [k \in 1 .. Len(c.data) |-> ModFromBytes(c.data[k])]]
        ELSE IF c.id = "pgen" THEN
            [m EXCEPT !.preset_gens = @ \o [k \in 1 .. Len(c.data) |-> GenFromBytes(c.data[k])]]
        ELSE IF c.id = "inst" THEN
            [m EXCEPT !.instruments = @ \o [k \in 1 .. Len(c.data) |-> InstFromBytes(c.data[k])]]
        ELSE IF c.id = "ibag" THEN
            [m EXCEPT !.inst_bags = @ \o [k \in 1 .. Len(c.data) |-> BagFromBytes(c.data[k])]]
        ELSE IF c.id = "imod" THEN
            [m EXCEPT !.inst_mods = @ \o [k \in 1 .. Len(c.data) |-> ModFromBytes(c.data[k])]]
        ELSE IF c.id = "igen" THEN
            [m EXCEPT !.inst_gens = @ \o [k \in 1 .. Len(c.data) |-> GenFromBytes(c.data[k])]]
        ELSE IF c.id = "shdr" THEN
            [m EXCEPT !.samples = @ \o [k \in 1 .. Len(c.data) |-> SampleFromBytes(c.data[k])]]
        ELSE m
    ELSE m

RECURSIVE ParseSubs(_, _, _, _)
ParseSubs(m, type, subs, k) ==
    IF k > Len(subs) \/ m = NoModel THEN m
    ELSE ParseSubs(ParseSub(m, type, subs[k]), type, subs, k + 1)

RECURSIVE ParseLists(_, _, _)
ParseLists(m, lists, k) ==
    IF k > Len(lists) \/ m = NoModel THEN m
    ELSE ParseLists(ParseSubs(m, lists[k].type, lists[k].subs, 1), lists, k + 1)

\* a parser that starts on the lists whatever the two tags are
parse_sf2_unchecked(f) == ParseLists(SF2File, f.lists, 1)

\* the bank parse_sf2 returns for container f; the two asserts come first
parse_sf2(f) ==
    IF f.riff # "RIFF" \/ f.form # "sfbk" THEN NoModel
    ELSE ParseLists(SF2File, f.lists, 1)

-----------------------------------------------------------------------------
(* MIDI scanning.  A MIDI file is its bytes; scan_midi_for_programs walks  *)
(* them one status byte at a time.                                         *)

MaxEvents == 2       \* events per track of a scanned MIDI file
MaxFiles  == 2       \* files in the scanned directory

DRUM_CHANNEL == 9
DRUM_BANK    == 128
PROGRAM_CHANGE == 192    \* 0xC0, program change on channel 0
NOTE_ON        == 144    \* 0x90, note-on on channel 0
CHANNELS       == 16     \* byte & 0x0F

NoScan == [programs |-> {}, note_channels |-> {}]

\* the while loop of scan_midi_for_programs from position i on
RECURSIVE ScanFrom(_, _, _)
ScanFrom(data, i, acc) ==
    IF ~(i < Len(data) - 1) THEN acc
    ELSE LET byte == At(data, i)
         IN  IF PROGRAM_CHANGE <= byte /\ byte <= PROGRAM_CHANGE + 15
             THEN ScanFrom(data, i + 2,
                     IF i + 1 < Len(data) /\ At(data, i + 1) < 128
                     THEN [acc EXCEPT !.programs =
                              @ \cup {<<byte % CHANNELS, At(data, i + 1)>>}]
                     ELSE acc)
             ELSE IF NOTE_ON <= byte /\ byte <= NOTE_ON + 15
             THEN ScanFrom(data, i + 3,
                     [acc EXCEPT !.note_channels = @ \cup {byte % CHANNELS}])
             ELSE ScanFrom(data, i + 1, acc)

scan_midi_for_programs(data) == ScanFrom(data, 0, NoScan)

\* midi_dir.rglob("*.mid"): the files of the directory with that suffix
MidFiles(dir) == {k \in DOMAIN dir : dir[k].ext = "mid"}

scan_midi_directory(dir) ==
    LET scan(k) == scan_midi_for_programs(dir[k].data)
    IN  UNION { {<<0, cp[2]>> : cp \in {x \in scan(k).programs : x[1] # DRUM_CHANNEL}}
                : k \in MidFiles(dir) }
        \cup (IF \E k \in MidFiles(dir) : DRUM_CHANNEL \in scan(k).note_channels
              THEN {<<DRUM_BANK, 0>>} ELSE {})

-----------------------------------------------------------------------------
(* The MIDI files of the input space: a format-0 file with one track of    *)
(* timed channel events, each a variable-length delta time followed by     *)
(* the status byte and its data bytes.                                     *)

NoteOn(channel, key, velocity) == <<NOTE_ON + channel, key, velocity>>
ProgramChange(channel, program) == <<PROGRAM_CHANGE + channel, program>>

\* a delta time as a variable-length quantity (7 bits per byte, high bit
\* set on every byte but the last)
Vlq(n) == IF n < 128 THEN <<n>> ELSE <<128 + (n \div 128), n % 128>>

\* the events in play, each at delta time 0 or 2048 ticks
TimedEvents ==
    [delta : {0, 2048},
     event : { NoteOn(9, 36, 100), NoteOn(0, 60, 100),
               ProgramChange(0, 1), ProgramChange(9, 0) }]

RECURSIVE TrackBytes(_, _)
TrackBytes(track, k) ==
    IF k > Len(track) THEN <<0, 255, 47, 0>>
    ELSE Vlq(track[k].delta) \o track[k].event \o TrackBytes(track, k + 1)

\* "MThd", length 6, format 0, one track, 480 ticks; "MTrk", length, events
MidiBytes(track) ==
    LET body == TrackBytes(track, 1)
    IN  <<77, 84, 104, 100, 0, 0, 0, 6, 0, 0, 0, 1, 1, 224>>
        \o <<77, 84, 114, 107, 0, 0, 0, Len(body)>> \o body

MidiFile(ext, track) == [ext |-> ext, track |-> track, data |-> MidiBytes(track)]

MidiFiles ==
    { MidiFile(ext, track) :
        ext \in {"mid", "midi"},
        track \in UNION { [1 .. n -> TimedEvents] : n \in 0 .. MaxEvents } }
MidiDirs == UNION { [1 .. n -> MidiFiles] : n \in 0 .. MaxFiles }

\* the file holds a note-on event on the drum channel
HasDrumNote(f) ==
    \E k \in DOMAIN f.track : f.track[k].event[1] = NOTE_ON + DRUM_CHANNEL

-----------------------------------------------------------------------------
(* Chunk framing at the level of bytes: write_chunk, and the reads the     *)
(* parser does for one chunk (read_chunk_header, the payload, the pad).    *)

\* the characters of the tags in play and their ASCII codes
Ascii ==
    [c \in {"L", "I", "S", "T", "s", "m", "p", "l", "i", "f"} |->
        CASE c = "L" -> 76 [] c = "I" -> 73 [] c = "S" -> 83 [] c = "T" -> 84
          [] c = "s" -> 115 [] c = "m" -> 109 [] c = "p" -> 112
          [] c = "l" -> 108 [] c = "i" -> 105 [] c = "f" -> 102]

\* chunk_id.encode('ascii') and bytes.decode('ascii')
EncodeAscii(str) == [k \in 1 .. Len(str) |-> Ascii[str[k]]]
DecodeAscii(bytes) ==
    [k \in 1 .. Len(bytes) |-> CHOOSE c \in DOMAIN Ascii : Ascii[c] = bytes[k]]

\* struct.pack('<I', n) and struct.unpack('<I', b)[0]
PackU32(n) ==
    <<n % 256, (n \div 256) % 256, (n \div 65536) % 256, (n \div 16777216) % 256>>
UnpackU32(b) == b[1] + 256 * b[2] + 65536 * b[3] + 16777216 * b[4]

\* a writer that never pads
write_chunk_unpadded(f, chunk_id, data) ==
    f \o EncodeAscii(chunk_id) \o PackU32(Len(data)) \o data

\* the stream f after write_chunk(f, chunk_id, data)
write_chunk(f, chunk_id, data) ==
    f \o EncodeAscii(chunk_id) \o PackU32(Len(data)) \o data
      \o (IF Len(data) % 2 = 1 THEN <<0>> ELSE << >>)

\* f.read(n) at position pos: the bytes that are there, at most n
Read(f, pos, n) == Slice(f, pos, pos + n)

\* the reader of one chunk: the tag and size it read, the payload, and its
\* position in the stream
NoReader == [id |-> << >>, size |-> 0, data |-> << >>, pos |-> 0]

read_chunk_header(f, r) ==
    [r EXCEPT !.id   = DecodeAscii(Read(f, r.pos, 4)),
              !.size = UnpackU32(Read(f, r.pos + 4, 4)),
              !.pos  = r.pos + 8]

\* info_data = f.read(info_size)
ReadPayload(f, r) ==
    [r EXCEPT !.data = Read(f, r.pos, r.size),
              !.pos  = r.pos + Len(Read(f, r.pos, r.size))]

\* if info_size % 2: f.read(1)
SkipPad(f, r) ==
    IF r.size % 2 = 1 THEN [r EXCEPT !.pos = r.pos + Len(Read(f, r.pos, 1))] ELSE r

\* the tags and payloads handed to write_chunk
ChunkTags == { <<"L", "I", "S", "T">>, <<"s", "m", "p", "l">>, <<"i", "f", "i", "l">> }
Payload(n, seed) == [k \in 1 .. n |-> (seed * k) % 256]
Chunks ==
    { [tag |-> t, data |-> Payload(n, s)] :
        t \in ChunkTags, n \in {0, 1, 2, 3, 255, 256, 257}, s \in {1, 128, 255} }

NoChunk == [tag |-> << >>, data |-> << >>]

-----------------------------------------------------------------------------
(* main's --extra strings.  A string is the sequence of its characters.    *)

MaxExtras == 2       \* --extra options on the command line

Digits == <<"0", "1", "2", "3", "4", "5", "6", "7", "8", "9">>
IsDigit(c) == \E d \in DOMAIN Digits : Digits[d] = c
DigitValue(c) == (CHOOSE d \in DOMAIN Digits : Digits[d] = c) - 1

\* extra.split(':')
RECURSIVE Split(_)
Split(str) ==
    IF \A k \in DOMAIN str : str[k] # ":" THEN <<str>>
    ELSE LET k == Min({j \in DOMAIN str : str[j] = ":"})
         IN  <<SubSeq(str, 1, k - 1)>> \o Split(SubSeq(str, k + 1, Len(str)))

\* the digits of an int() literal after its optional sign
Unsigned(part) ==
    IF part # << >> /\ part[1] \in {"-", "+"} THEN Tail(part) ELSE part

\* int(part) returns (it raises ValueError otherwise)
IntOk(part) ==
    Unsigned(part) # << >> /\ \A k \in DOMAIN Unsigned(part) : IsDigit(Unsigned(part)[k])

RECURSIVE Magnitude(_)
Magnitude(digits) ==
    IF digits = << >> THEN 0
    ELSE 10 * Magnitude(SubSeq(digits, 1, Len(digits) - 1))
         + DigitValue(digits[Len(digits)])

\* int(part), for a part that int() accepts
IntValue(part) ==
    IF part[1] = "-" THEN 0 - Magnitude(Unsigned(part)) ELSE Magnitude(Unsigned(part))

\* bank, program = map(int, extra.split(':')) returns (no ValueError)
ExtraOk(extra) ==
    LET parts == Split(extra)
    IN  Len(parts) = 2 /\ IntOk(parts[1]) /\ IntOk(parts[2])

\* a loop that gives up at the first string it cannot read
RECURSIVE AddExtrasUntilInvalid(_, _, _)
AddExtrasUntilInvalid(extras, k, acc) ==
    IF k > Len(extras) THEN acc
    ELSE IF ExtraOk(extras[k])
    THEN AddExtrasUntilInvalid(extras, k + 1,
            [acc EXCEPT !.needed = @ \cup
                {<<IntValue(Split(extras[k])[1]), IntValue(Split(extras[k])[2])>>}])
    ELSE [acc EXCEPT !.warnings = Append(@, extras[k])]

\* the loop over args.extra from its k-th string on
RECURSIVE AddExtras(_, _, _)
AddExtras(extras, k, acc) ==
    IF k > Len(extras) THEN acc
    ELSE IF ExtraOk(extras[k])
    THEN AddExtras(extras, k + 1,
            [acc EXCEPT !.needed = @ \cup
                {<<IntValue(Split(extras[k])[1]), IntValue(Split(extras[k])[2])>>}])
    ELSE AddExtras(extras, k + 1, [acc EXCEPT !.warnings = Append(@, extras[k])])

\* the --extra strings in play
ExtraStrings ==
    { <<"0", ":", "0">>, <<"0", ":", "1">>, <<"1", "2", "8", ":", "0">>,
      <<"-", "1", ":", "0">>, <<"0">>, <<"0", ":">>, <<"x", ":", "1">>,
      <<"0", ":", "1", ":", "0">> }
ExtraLists == UNION { [1 .. n -> ExtraStrings] : n \in 0 .. MaxExtras }

-----------------------------------------------------------------------------
(* The input files parse_sf2 is given: the container of a bank, its outer  *)
(* tags as found, and possibly one record chunk of pdta whose payload      *)
(* ends inside a record.                                                   *)

\* the bank whose records serialise the fields they were parsed with
Staged(bank) ==
    [bank EXCEPT
       !.presets = [k \in DOMAIN bank.presets |->
           [bank.presets[k] EXCEPT !.new_bag_idx = bank.presets[k].bag_idx]],
       !.instruments = [k \in DOMAIN bank.instruments |->
           [bank.instruments[k] EXCEPT !.new_bag_idx = bank.instruments[k].bag_idx]],
       !.samples = [k \in DOMAIN bank.samples |->
           [bank.samples[k] EXCEPT !.new_start = bank.samples[k].start,
                                   !.new_end = bank.samples[k].end]]]

\* the container that parses to `bank`
InputFile(bank) == write_sf2(Staged(bank))

RecordIds == {"phdr", "pbag", "pmod", "pgen", "inst", "ibag", "imod", "igen", "shdr"}

\* bytes of a partial record after the last whole one: few, half, all but one
Residues(recsize) == {1, recsize \div 2, recsize - 1}

NoDamage == [id |-> "none", extra |-> 0]
Damages ==
    {NoDamage} \cup
    UNION { { [id |-> i, extra |-> r] : r \in Residues(RecordLayout(i)[2]) }
            : i \in RecordIds }

Grow(c, dmg) ==
    IF c.id = dmg.id
    THEN [c EXCEPT !.size = c.size + dmg.extra, !.pad = (c.size + dmg.extra) % 2]
    ELSE c

\* container f with the given outer tags and damage, its sizes recomputed
OnDisk(f, riff, form, dmg) ==
    LET lists == [k \in DOMAIN f.lists |->
                    ListChunk(f.lists[k].type,
                              [j \in DOMAIN f.lists[k].subs |->
                                  Grow(f.lists[k].subs[j], dmg)])]
    IN  [riff |-> riff, size |-> 4 + SumBytes(lists, 1), form |-> form,
         lists |-> lists]

\* two presets with an instrument and a sample each
BankA ==
    MakeBank(<< [key |-> <<0, 0>>, inst |-> 0], [key |-> <<0, 1>>, inst |-> 1] >>,
             <<0, 1>>, <<0, 0, 0>>, "disjoint")
\* one preset without a zone, samples sharing their frames
BankB ==
    MakeBank(<< [key |-> <<0, 1>>, inst |-> NoZone] >>, <<2>>, <<0, 3, 1>>, "shared")
\* preset (0, 0) references the terminal instrument
BankTerminalRef ==
    MakeBank(<< [key |-> <<0, 0>>, inst |-> 2], [key |-> <<0, 1>>, inst |-> 1] >>,
             <<0, 1>>, <<0, 0, 0>>, "disjoint")
\* the loop of sample 1 starts before the sample does
BankBadLoop == [BankA EXCEPT !.samples[2].loop_start = 0]

ParseInputs ==
    { OnDisk(InputFile(b), riff, form, dmg) :
        b \in {BankA, BankB}, riff \in {"RIFF", "RIFX", "LIST"},
        form \in {"sfbk", "WAVE"}, dmg \in Damages }

\* a chunk of pdta whose byte length is no multiple of its record size
Misfit(c) == c.id \in RecordIds /\ c.size % RecordLayout(c.id)[2] # 0

HasMisfit(f) ==
    \E k \in DOMAIN f.lists :
        f.lists[k].type = "pdta" /\ \E j \in DOMAIN f.lists[k].subs : Misfit(f.lists[k].subs[j])

\* the list sections the loop of parse_sf2 enters: none when an assert
\* fails, none after the list in which a from_bytes raises
ListsEntered(f) ==
    IF f.riff # "RIFF" \/ f.form # "sfbk" THEN << >>
    ELSE LET fails == {k \in DOMAIN f.lists :
                          ParseLists(SF2File, SubSeq(f.lists, 1, k), 1) = NoModel}
         IN  [k \in 1 .. (IF fails = {} THEN Len(f.lists) ELSE Min(fails)) |->
                 [op |-> "list", arg |-> <<f.lists[k].type>>]]

-----------------------------------------------------------------------------
(* main: its command line, what it finds on disk, how it ends.             *)

NoArgs == [extra |-> << >>, dry_run |-> FALSE]
NoDisk == [input_exists |-> FALSE, input |-> NoFile,
           midi_exists |-> FALSE, midi_dir |-> << >>]

Running   == [kind |-> "running", code |-> 0 - 1]
Raised    == [kind |-> "raised", code |-> 0 - 1]
Return(c) == [kind |-> "return", code |-> c]

\* the destination right after open(filepath, 'wb')
Opened == [opened |-> TRUE]

\* one effect of main in the log
Did(op) == [op |-> op, arg |-> << >>]

Ran(op) == \E k \in DOMAIN log : log[k].op = op
FirstRun(op) == Min({k \in DOMAIN log : log[k].op = op})

CliIdle ==
    args = NoArgs /\ fs = NoDisk /\ rc = Running /\ log = << >> /\ chunk = NoChunk

PipelineIdle ==
    /\ orig = NoModel /\ sf2 = NoModel /\ needed = {} /\ out = NoModel
    /\ alias = NoAlias /\ warned = FALSE /\ file = NoFile /\ wrote = "none"
    /\ back = NoModel

\* no Map was built, subset_sf2 was not called before
NoCall == [op |-> "none", args |-> << >>, width |-> 0, height |-> 0, cells |-> << >>]
NoMap == [width |-> 0, height |-> 0, cells |-> << >>, last |-> NoCall]
\* parse_sf2 is not reading
NoRead == [id |-> "", start |-> 0, size |-> 0, after |-> 0, inside |-> FALSE]
NotReading == [pos |-> 0, end_pos |-> 0, ahead |-> << >>, inner |-> 0, last |-> NoRead]
AuxIdle == first = NoModel /\ reader = NotReading /\ grid = NoMap

-----------------------------------------------------------------------------
(* The pipeline.                                                           *)

Init ==
    /\ \E pd \in [1 .. NumPresets -> PresetChoices],
          irefs \in [1 .. NumInsts -> 0 .. (NumSamples - 1)],
          links \in [1 .. NumSamples -> 0 .. NumSamples],
          layout \in Layouts :
          /\ \A i \in 1 .. NumInsts : irefs[i] \in InstChoices(i - 1)
          /\ \A s \in 1 .. NumSamples : links[s] \in LinkChoices(s - 1)
          /\ orig = MakeBank(pd, irefs, links, layout)
          /\ sf2 = orig
    /\ needed = {}
    /\ pc = "parsed"
    /\ out = NoModel
    /\ alias = NoAlias
    /\ warned = FALSE
    /\ file = NoFile
    /\ wrote = "none"
    /\ back = NoModel
    /\ CliIdle
    /\ AuxIdle

\* out = subset_sf2(sf2, needed), for any wanted set
Subset ==
    /\ pc = "parsed"
    /\ \E wanted \in SUBSET Keys :
         LET r == subset_sf2(sf2, wanted)
         IN  /\ needed' = wanted
             /\ pc' = IF r.ok THEN "subset" ELSE "failed"
             /\ sf2' = r.src
             /\ out' = r.out
             /\ alias' = r.alias
             /\ warned' = r.warned
    /\ UNCHANGED <<orig, file, wrote, back>>
    /\ UNCHANGED cli
    /\ UNCHANGED aux

\* write_sf2(out, output_path)
WriteSubset ==
    /\ pc = "subset"
    /\ IF Packs(out)
       THEN file' = write_sf2(out) /\ wrote' = "subset" /\ pc' = "written"
       ELSE file' = file /\ wrote' = wrote /\ pc' = "failed"
    /\ UNCHANGED <<orig, sf2, needed, out, alias, warned, back>>
    /\ UNCHANGED cli
    /\ UNCHANGED aux

\* write_sf2(sf2, path) straight after parsing, without subsetting
WriteSource ==
    /\ pc = "parsed"
    /\ IF Packs(sf2)
       THEN file' = write_sf2(sf2) /\ wrote' = "source" /\ pc' = "written"
       ELSE file' = file /\ wrote' = wrote /\ pc' = "failed"
    /\ UNCHANGED <<orig, sf2, needed, out, alias, warned, back>>
    /\ UNCHANGED cli
    /\ UNCHANGED aux

\* parse_sf2 of the container just written
Reparse ==
    /\ pc = "written"
    /\ back' = parse_sf2(file)
    /\ pc' = "reparsed"
    /\ UNCHANGED <<orig, sf2, needed, out, alias, warned, file, wrote>>
    /\ UNCHANGED cli
    /\ UNCHANGED aux

Next == Subset \/ WriteSubset \/ WriteSource \/ Reparse

Spec == Init /\ [][Next]_vars

-----------------------------------------------------------------------------
(* main, one action per stage; write_sf2 is the three stages it has:       *)
(* building every chunk in memory, opening the destination, writing.       *)

\* if not input_path.exists(): return 1, with no regard for the exit code
CheckInputReturnsZero ==
    /\ pc = "check_input"
    /\ IF fs.input_exists
       THEN pc' = "check_midi" /\ UNCHANGED <<rc, log>>
       ELSE pc' = "exit" /\ rc' = Return(0) /\ log' = Append(log, Did("error"))
    /\ UNCHANGED <<orig, sf2, needed, out, alias, warned, file, wrote, back>>
    /\ UNCHANGED <<args, fs, chunk>>
    /\ UNCHANGED aux

\* if not input_path.exists(): return 1
CheckInput ==
    /\ pc = "check_input"
    /\ IF fs.input_exists
       THEN pc' = "check_midi" /\ UNCHANGED <<rc, log>>
       ELSE pc' = "exit" /\ rc' = Return(1) /\ log' = Append(log, Did("error"))
    /\ UNCHANGED <<orig, sf2, needed, out, alias, warned, file, wrote, back>>
    /\ UNCHANGED <<args, fs, chunk>>
    /\ UNCHANGED aux

\* if not midi_dir.exists(): return 1
CheckMidiDir ==
    /\ pc = "check_midi"
    /\ IF fs.midi_exists
       THEN pc' = "scan" /\ UNCHANGED <<rc, log>>
       ELSE pc' = "exit" /\ rc' = Return(1) /\ log' = Append(log, Did("error"))
    /\ UNCHANGED <<orig, sf2, needed, out, alias, warned, file, wrote, back>>
    /\ UNCHANGED <<args, fs, chunk>>
    /\ UNCHANGED aux

\* needed = scan_midi_directory(midi_dir, args.verbose)
ScanMidi ==
    /\ pc = "scan"
    /\ needed' = scan_midi_directory(fs.midi_dir)
    /\ log' = Append(log, Did("scan"))
    /\ pc' = "extras"
    /\ UNCHANGED <<orig, sf2, out, alias, warned, file, wrote, back>>
    /\ UNCHANGED <<args, fs, rc, chunk>>
    /\ UNCHANGED aux

\* for extra in args.extra: ...
Extras ==
    /\ pc = "extras"
    /\ LET r == AddExtras(args.extra, 1, [needed |-> needed, warnings |-> << >>])
       IN  /\ needed' = r.needed
           /\ log' = log \o [k \in DOMAIN r.warnings |-> [op |-> "warning", arg |-> r.warnings[k]]]
    /\ pc' = "parse"
    /\ UNCHANGED <<orig, sf2, out, alias, warned, file, wrote, back>>
    /\ UNCHANGED <<args, fs, rc, chunk>>
    /\ UNCHANGED aux

\* sf2 = parse_sf2(input_path)
ParseInput ==
    /\ pc = "parse"
    /\ sf2' = parse_sf2(fs.input)
    /\ orig' = sf2'
    /\ log' = Append(log, Did("parse")) \o ListsEntered(fs.input)
    /\ IF sf2' = NoModel
       THEN pc' = "exit" /\ rc' = Raised
       ELSE pc' = "subset" /\ rc' = rc
    /\ UNCHANGED <<needed, out, alias, warned, file, wrote, back>>
    /\ UNCHANGED <<args, fs, chunk>>
    /\ UNCHANGED aux

\* out = subset_sf2(sf2, needed, args.verbose)
SubsetNeeded ==
    /\ pc = "subset"
    /\ LET r == subset_sf2(sf2, needed)
       IN  /\ sf2' = r.src
           /\ out' = r.out
           /\ alias' = r.alias
           /\ warned' = r.warned
           /\ IF r.ok THEN pc' = "dry_run" /\ rc' = rc
              ELSE pc' = "exit" /\ rc' = Raised
    /\ log' = Append(log, Did("subset"))
    /\ UNCHANGED <<orig, needed, file, wrote, back>>
    /\ UNCHANGED <<args, fs, chunk>>
    /\ UNCHANGED aux

\* a main that goes on to write whatever --dry-run says
DryRunIgnored ==
    /\ pc = "dry_run"
    /\ pc' = "mkdir" /\ rc' = rc
    /\ UNCHANGED <<orig, sf2, needed, out, alias, warned, file, wrote, back>>
    /\ UNCHANGED <<args, fs, log, chunk>>
    /\ UNCHANGED aux

\* if args.dry_run: return 0
DryRun ==
    /\ pc = "dry_run"
    /\ IF args.dry_run
       THEN pc' = "exit" /\ rc' = Return(0)
       ELSE pc' = "mkdir" /\ rc' = rc
    /\ UNCHANGED <<orig, sf2, needed, out, alias, warned, file, wrote, back>>
    /\ UNCHANGED <<args, fs, log, chunk>>
    /\ UNCHANGED aux

\* a main that opens the destination as soon as its directory exists
MakeDirsAndOpen ==
    /\ pc = "mkdir"
    /\ log' = log \o <<Did("mkdir"), Did("open")>>
    /\ file' = Opened
    /\ pc' = "serialise"
    /\ UNCHANGED <<orig, sf2, needed, out, alias, warned, wrote, back>>
    /\ UNCHANGED <<args, fs, rc, chunk>>
    /\ UNCHANGED aux

\* output_path.parent.mkdir(parents=True, exist_ok=True)
MakeDirs ==
    /\ pc = "mkdir"
    /\ log' = Append(log, Did("mkdir"))
    /\ pc' = "serialise"
    /\ UNCHANGED <<orig, sf2, needed, out, alias, warned, file, wrote, back>>
    /\ UNCHANGED <<args, fs, rc, chunk>>
    /\ UNCHANGED aux

\* write_sf2 up to its open(): every to_bytes and struct.pack of the tables
Serialise ==
    /\ pc = "serialise"
    /\ IF Packs(out)
       THEN pc' = "open" /\ rc' = rc /\ log' = Append(log, Did("serialise"))
       ELSE pc' = "exit" /\ rc' = Raised /\ log' = log
    /\ UNCHANGED <<orig, sf2, needed, out, alias, warned, file, wrote, back>>
    /\ UNCHANGED <<args, fs, chunk>>
    /\ UNCHANGED aux

\* with open(filepath, 'wb') as f
OpenDest ==
    /\ pc = "open"
    /\ file' = Opened
    /\ log' = Append(log, Did("open"))
    /\ pc' = "write"
    /\ UNCHANGED <<orig, sf2, needed, out, alias, warned, wrote, back>>
    /\ UNCHANGED <<args, fs, rc, chunk>>
    /\ UNCHANGED aux

\* the header and the three write_chunk calls
WriteContainer ==
    /\ pc = "write"
    /\ file' = write_sf2(out)
    /\ wrote' = "subset"
    /\ log' = Append(log, Did("write"))
    /\ pc' = "report"
    /\ UNCHANGED <<orig, sf2, needed, out, alias, warned, back>>
    /\ UNCHANGED <<args, fs, rc, chunk>>
    /\ UNCHANGED aux

\* the size report, return 0
Report ==
    /\ pc = "report"
    /\ rc' = Return(0)
    /\ pc' = "exit"
    /\ UNCHANGED <<orig, sf2, needed, out, alias, warned, file, wrote, back>>
    /\ UNCHANGED <<args, fs, log, chunk>>
    /\ UNCHANGED aux

\* the directories and input files main is run on
MainDirs ==
    { << >>,
      << MidiFile("mid", << [delta |-> 0, event |-> ProgramChange(0, 1)] >>) >>,
      << MidiFile("mid", << [delta |-> 0, event |-> NoteOn(9, 36, 100)] >>) >> }
MainInputs ==
    { InputFile(BankA), InputFile(BankTerminalRef), InputFile(BankBadLoop),
      OnDisk(InputFile(BankA), "RIFX", "sfbk", NoDamage) }

MainInit ==
    /\ pc = "check_input"
    /\ PipelineIdle
    /\ args \in [extra : ExtraLists, dry_run : BOOLEAN]
    /\ fs \in ({ [input_exists |-> TRUE, input |-> f, midi_exists |-> TRUE, midi_dir |-> d]
                    : f \in MainInputs, d \in MainDirs }
               \cup { [NoDisk EXCEPT !.midi_exists = m] : m \in BOOLEAN }
               \cup { [NoDisk EXCEPT !.input_exists = TRUE, !.input = f]
                        : f \in MainInputs })
    /\ rc = Running
    /\ log = << >>
    /\ chunk = NoChunk
    /\ AuxIdle

MainNext ==
    \/ CheckInput \/ CheckMidiDir \/ ScanMidi \/ Extras \/ ParseInput
    \/ SubsetNeeded \/ DryRun \/ MakeDirs \/ Serialise \/ OpenDest
    \/ WriteContainer \/ Report

MainSpec == MainInit /\ [][MainNext]_vars

-----------------------------------------------------------------------------
(* parse_sf2 on its own, over the damaged input files.                     *)

ParseInit ==
    /\ pc = "parse"
    /\ PipelineIdle
    /\ args = NoArgs
    /\ fs \in { [input_exists |-> TRUE, input |-> f, midi_exists |-> TRUE, midi_dir |-> << >>]
                  : f \in ParseInputs }
    /\ rc = Running
    /\ log = << >>
    /\ chunk = NoChunk
    /\ AuxIdle

ParseSpec == ParseInit /\ [][ParseInput]_vars

-----------------------------------------------------------------------------
(* scan_midi_directory on its own, over the MIDI directories.              *)

ScanInit ==
    /\ pc = "scan"
    /\ PipelineIdle
    /\ args = NoArgs
    /\ fs \in { [NoDisk EXCEPT !.midi_exists = TRUE, !.midi_dir = d] : d \in MidiDirs }
    /\ rc = Running
    /\ log = << >>
    /\ chunk = NoChunk
    /\ AuxIdle

ScanSpec == ScanInit /\ [][ScanMidi]_vars

-----------------------------------------------------------------------------
(* One chunk written by write_chunk and read back by the parser's steps.   *)

ChunkInit ==
    /\ pc = "chunk"
    /\ orig = NoModel /\ sf2 = NoModel /\ needed = {} /\ out = NoModel
    /\ alias = NoAlias /\ warned = FALSE /\ wrote = "none"
    /\ file = << >>
    /\ back = NoReader
    /\ args = NoArgs /\ fs = NoDisk /\ rc = Running /\ log = << >>
    /\ chunk \in Chunks
    /\ AuxIdle

WriteChunk ==
    /\ pc = "chunk"
    /\ file' = write_chunk(file, chunk.tag, chunk.data)
    /\ pc' = "emitted"
    /\ UNCHANGED <<orig, sf2, needed, out, alias, warned, wrote, back>>
    /\ UNCHANGED cli
    /\ UNCHANGED aux

\* info_id, info_size = read_chunk_header(f)
ReadHeader ==
    /\ pc = "emitted"
    /\ back' = read_chunk_header(file, back)
    /\ pc' = "header"
    /\ UNCHANGED <<orig, sf2, needed, out, alias, warned, file, wrote>>
    /\ UNCHANGED cli
    /\ UNCHANGED aux

ReadData ==
    /\ pc = "header"
    /\ back' = ReadPayload(file, back)
    /\ pc' = "payload"
    /\ UNCHANGED <<orig, sf2, needed, out, alias, warned, file, wrote>>
    /\ UNCHANGED cli
    /\ UNCHANGED aux

ReadPad ==
    /\ pc = "payload"
    /\ back' = SkipPad(file, back)
    /\ pc' = "read"
    /\ UNCHANGED <<orig, sf2, needed, out, alias, warned, file, wrote>>
    /\ UNCHANGED cli
    /\ UNCHANGED aux

ChunkNext == WriteChunk \/ ReadHeader \/ ReadData \/ ReadPad

ChunkSpec == ChunkInit /\ [][ChunkNext]_vars

-----------------------------------------------------------------------------
(* subset_sf2 over banks whose sample headers are whatever the shdr        *)
(* records of the input file say: parse_sf2 checks no offset against the   *)
(* PCM blob, and the smpl payload may have an odd number of bytes.         *)

\* <<start, end, loop_start, loop_end>> of a sample header, in frames: inside
\* the blob, overlapping the first, past the end of the blob, empty, inverted
Geometries ==
    { <<2, 4, 2, 3>>, <<0, 4, 1, 3>>, <<6, 10, 7, 9>>, <<4, 4, 4, 4>>, <<4, 2, 4, 4>> }

\* the smpl payloads: 16 bytes (8 frames), and the same cut after 15
PcmBlobs == { PcmBlob, SubSeq(PcmBlob, 1, Len(PcmBlob) - 1) }

\* presets (0, 0) and (0, 1), an instrument and a sample each; sample 1 is
\* linked to sample 2
PcmBank(geo, blob) ==
    LET bank == MakeBank(<< [key |-> <<0, 0>>, inst |-> 0], [key |-> <<0, 1>>, inst |-> 1] >>,
                         <<0, 1>>, [s \in 1 .. NumSamples |-> IF s = 2 THEN 2 ELSE 0],
                         "disjoint")
    IN  [bank EXCEPT
           !.sample_data = blob,
           !.samples = [k \in DOMAIN bank.samples |->
               IF k > NumSamples THEN bank.samples[k]
               ELSE [bank.samples[k] EXCEPT
                       !.start = geo[k][1], !.end = geo[k][2],
                       !.loop_start = geo[k][3], !.loop_end = geo[k][4]]]]

PcmInit ==
    /\ \E geo \in [1 .. NumSamples -> Geometries], blob \in PcmBlobs :
          /\ orig = PcmBank(geo, blob)
          /\ sf2 = orig
    /\ needed = {}
    /\ pc = "parsed"
    /\ out = NoModel
    /\ alias = NoAlias
    /\ warned = FALSE
    /\ file = NoFile
    /\ wrote = "none"
    /\ back = NoModel
    /\ CliIdle
    /\ AuxIdle

PcmSpec == PcmInit /\ [][Next]_vars

-----------------------------------------------------------------------------
(* The bytes write_sf2 emits, counted from what each write puts out: the   *)
(* records as to_bytes packs them, field by field, and the chunks as       *)
(* tag, length field, payload and pad.                                     *)

\* struct.calcsize of one format character ('<': standard sizes, no alignment)
Width(c) == CASE c = "B" -> 1 [] c = "H" -> 2 [] c = "h" -> 2 [] c = "I" -> 4 [] c = "L" -> 4

RECURSIVE StructSize(_)
StructSize(fmt) == IF fmt = << >> THEN 0 ELSE Width(Head(fmt)) + StructSize(Tail(fmt))

\* the format string each to_bytes packs with
RecordFormat(id) ==
    CASE id = "phdr" -> <<"H", "H", "H", "L", "L", "L">>
      [] id = "inst" -> <<"H">>
      [] id = "shdr" -> <<"I", "I", "I", "I", "I", "B", "B", "H", "H">>
      [] id \in {"pbag", "ibag", "pgen", "igen"} -> <<"H", "H">>
      [] id \in {"pmod", "imod"} -> <<"H", "H", "h", "H", "H">>

\* len(record.to_bytes()): the name field, where there is one, and the pack
RecordBytes(id, w) ==
    (IF id \in {"phdr", "inst", "shdr"} THEN Len(w.name) ELSE 0) + StructSize(RecordFormat(id))

\* bytes of the payload written for a sub-chunk
RECURSIVE JoinedBytes(_, _, _)
JoinedBytes(id, recs, k) ==
    IF k > Len(recs) THEN 0 ELSE RecordBytes(id, recs[k]) + JoinedBytes(id, recs, k + 1)

PayloadBytes(c) ==
    IF c.id \in RecordIds THEN JoinedBytes(c.id, c.data, 1) ELSE Len(c.data)

\* bytes of the payload written for a list chunk: its type tag, then each
\* sub-chunk's tag, length field, payload and pad
RECURSIVE SubsBytes(_, _)
SubsBytes(subs, k) ==
    IF k > Len(subs) THEN 0
    ELSE 8 + PayloadBytes(subs[k]) + subs[k].pad + SubsBytes(subs, k + 1)

ListPayloadBytes(l) == 4 + SubsBytes(l.subs, 1)

\* bytes written after the 8-byte outer header
RECURSIVE ListsBytes(_, _)
ListsBytes(lists, k) ==
    IF k > Len(lists) THEN 0
    ELSE 8 + ListPayloadBytes(lists[k]) + lists[k].pad + ListsBytes(lists, k + 1)

BytesAfterHeader(f) == 4 + ListsBytes(f.lists, 1)

-----------------------------------------------------------------------------
(* subset_sf2 called a second time on the same parsed bank with the same   *)
(* wanted set.  The samples, instruments and presets of the first result   *)
(* are the source's own objects, so what the first result holds after the  *)
(* second call is what the second call left in them.                       *)

\* the table of a returned bank as it reads now: its first records are the
\* source objects at the aliased positions, the terminal record is its own
Seen(table, positions, source) ==
    [k \in DOMAIN table |-> IF k <= Len(positions) THEN At(source, positions[k]) ELSE table[k]]

Observed(bank, al, src) ==
    [bank EXCEPT !.samples     = Seen(bank.samples, al.samples, src.samples),
                 !.instruments = Seen(bank.instruments, al.instruments, src.instruments),
                 !.presets     = Seen(bank.presets, al.presets, src.presets)]

\* new_sf2_again = subset_sf2(sf2, needed), new_sf2 still referenced
SubsetAgain ==
    /\ pc = "subset"
    /\ LET r == subset_sf2(sf2, needed)
       IN  /\ pc' = IF r.ok THEN "resubset" ELSE "failed"
           /\ first' = Observed(out, alias, r.src)
           /\ sf2' = r.src
           /\ out' = r.out
           /\ alias' = r.alias
           /\ warned' = r.warned
    /\ UNCHANGED <<orig, needed, file, wrote, back, reader, grid>>
    /\ UNCHANGED cli

RepeatNext == Subset \/ SubsetAgain

RepeatSpec == Init /\ [][RepeatNext]_vars

-----------------------------------------------------------------------------
(* Parsing a container from disk and then running the pipeline on the      *)
(* bank: the inputs here carry the optional sm24 sub-chunk in sdta.        *)

\* the low bytes of the 24-bit samples, one per frame: odd and even runs
Sm24Blobs == { <<21, 22, 23>>, <<21, 22, 23, 24>>, <<21, 22, 23, 24, 25>> }

\* container f with an sm24 sub-chunk after smpl in its sdta list
WithSm24(f, extra) ==
    LET lists == [k \in DOMAIN f.lists |->
                    IF f.lists[k].type = "sdta"
                    THEN ListChunk("sdta", Append(f.lists[k].subs, ByteChunk("sm24", extra, TRUE)))
                    ELSE f.lists[k]]
    IN  [f EXCEPT !.lists = lists, !.size = 4 + SumBytes(lists, 1)]

Sm24Banks == {BankA, BankB, BankTerminalRef, BankBadLoop}

Sm24Inputs == { WithSm24(InputFile(b), extra) : b \in Sm24Banks, extra \in Sm24Blobs }

\* sf2 = parse_sf2(input_path)
ParseSource ==
    /\ pc = "input"
    /\ sf2' = parse_sf2(fs.input)
    /\ orig' = sf2'
    /\ pc' = IF sf2' = NoModel THEN "failed" ELSE "parsed"
    /\ UNCHANGED <<needed, out, alias, warned, file, wrote, back>>
    /\ UNCHANGED <<args, fs, rc, log, chunk>>
    /\ UNCHANGED aux

Sm24Init ==
    /\ pc = "input"
    /\ PipelineIdle
    /\ args = NoArgs
    /\ fs \in { [input_exists |-> TRUE, input |-> f, midi_exists |-> TRUE, midi_dir |-> << >>]
                  : f \in Sm24Inputs }
    /\ rc = Running
    /\ log = << >>
    /\ chunk = NoChunk
    /\ AuxIdle

Sm24Next == ParseSource \/ Subset \/ WriteSubset \/ WriteSource \/ Reparse

Sm24Spec == Sm24Init /\ [][Sm24Next]_vars

-----------------------------------------------------------------------------
(* parse_sf2 one top-level chunk at a time: the read position of the file  *)
(* object and the chunks that lie ahead of it.  The inputs hold the three  *)
(* sections in every order, with a chunk or a list the parser does not     *)
(* know among them.                                                        *)

KnownLists == {"INFO", "sdta", "pdta"}

\* bytes the inner loop of a known list consumes: per sub-chunk its header,
\* its payload and, when the size is odd, the pad byte
RECURSIVE SubsRead(_, _)
SubsRead(subs, k) ==
    IF k > Len(subs) THEN 0
    ELSE 8 + subs[k].size + (subs[k].size % 2) + SubsRead(subs, k + 1)

Container(chunks) ==
    [riff |-> "RIFF", size |-> 4 + SumBytes(chunks, 1), form |-> "sfbk", lists |-> chunks]

NestedInfo == ListChunk("INFO", << ByteChunk("INAM", <<88, 0>>, TRUE) >>)

\* what may stand among the sections: a chunk that is no list (odd and even),
\* lists of a type the parser does not know (empty, with a chunk, with a list)
ExtraChunks ==
    { ByteChunk("JUNK", <<1, 2, 3>>, TRUE),
      ByteChunk("JUNK", <<1, 2>>, TRUE),
      ListChunk("XTRA", << >>),
      ListChunk("XTRA", << ByteChunk("note", <<7, 7, 7>>, TRUE) >>),
      ListChunk("XTRA", << NestedInfo >>),
      ListChunk("XTRA", << ByteChunk("note", <<7>>, TRUE), NestedInfo >>) }

Orders == { <<1, 2, 3>>, <<1, 3, 2>>, <<2, 1, 3>>, <<2, 3, 1>>, <<3, 1, 2>>, <<3, 2, 1>> }

Arrange(lists, order, extra, p) ==
    LET base == [k \in 1 .. 3 |-> lists[order[k]]]
    IN  SubSeq(base, 1, p) \o extra \o SubSeq(base, p + 1, 3)

FrameInputs ==
    { Container(Arrange(InputFile(b).lists, order, extra, p)) :
        b \in {BankA, BankB}, order \in Orders,
        extra \in ({ << >> } \cup { <<e>> : e \in ExtraChunks }), p \in 0 .. 3 }

\* open, the RIFF header and the form type with their asserts, end_pos
OpenInput ==
    /\ pc = "open"
    /\ IF fs.input.riff # "RIFF" \/ fs.input.form # "sfbk"
       THEN pc' = "failed" /\ sf2' = sf2 /\ reader' = reader
       ELSE /\ pc' = "walk"
            /\ sf2' = SF2File
            /\ reader' = [pos |-> 12, end_pos |-> 12 + fs.input.size - 4,
                          ahead |-> fs.input.lists, inner |-> 0, last |-> NoRead]
    /\ UNCHANGED <<orig, needed, out, alias, warned, file, wrote, back>>
    /\ UNCHANGED cli
    /\ UNCHANGED <<first, grid>>

\* one pass of the loop `while f.tell() < end_pos`
ReadTopChunk ==
    /\ pc = "walk"
    /\ reader.pos < reader.end_pos
    /\ reader.ahead # << >>
    /\ LET c == Head(reader.ahead)
           chunk_start == reader.pos + 8
           known == c.id = "LIST" /\ c.type \in KnownLists
           other == c.id = "LIST" /\ c.type \notin KnownLists
           m == IF known THEN ParseSubs(sf2, c.type, c.subs, 1) ELSE sf2
           after == IF known THEN chunk_start + 4 + SubsRead(c.subs, 1)
                    ELSE IF other THEN chunk_start + 4
                    ELSE chunk_start + c.size + (c.size % 2)
           left == IF reader.inner > 0 THEN reader.inner - 1 ELSE 0
       IN  /\ sf2' = m
           /\ pc' = IF m = NoModel THEN "failed" ELSE "walk"
           /\ reader' = [reader EXCEPT
                  !.pos = after,
                  !.ahead = IF other THEN c.subs \o Tail(@) ELSE Tail(@),
                  !.inner = IF other THEN Len(c.subs) + left ELSE left,
                  !.last = [id |-> c.id, start |-> chunk_start, size |-> c.size,
                            after |-> after, inside |-> reader.inner > 0]]
    /\ UNCHANGED <<orig, needed, out, alias, warned, file, wrote, back>>
    /\ UNCHANGED cli
    /\ UNCHANGED <<first, grid>>

\* the loop ends, return sf2
FinishWalk ==
    /\ pc = "walk"
    /\ ~(reader.pos < reader.end_pos)
    /\ orig' = sf2
    /\ pc' = "parsed"
    /\ UNCHANGED <<sf2, needed, out, alias, warned, file, wrote, back>>
    /\ UNCHANGED cli
    /\ UNCHANGED aux

FrameInit ==
    /\ pc = "open"
    /\ PipelineIdle
    /\ args = NoArgs
    /\ fs \in { [input_exists |-> TRUE, input |-> f, midi_exists |-> TRUE, midi_dir |-> << >>]
                  : f \in FrameInputs }
    /\ rc = Running
    /\ log = << >>
    /\ chunk = NoChunk
    /\ AuxIdle

FrameNext == OpenInput \/ ReadTopChunk \/ FinishWalk

FrameSpec == FrameInit /\ [][FrameNext]_vars

-----------------------------------------------------------------------------
(* map_tool.py: the grid of a Map and the methods that edit it.  Cells are *)
(* values here: every Cell handed to set_cell is a fresh object.  `last`   *)
(* keeps the call that was made last and the grid it was made on.          *)

MaxWidth  == 2       \* widest grid
MaxHeight == 2       \* tallest grid

Cell(height, tile, tags) == [height |-> height, tile |-> tile, tags |-> tags]

Ground == Cell(0, ".", << >>)       \* the default fill of resize and pad
Wall   == Cell(1, "#", << >>)       \* what fill and fill_rect are called with
Marked == Cell(2, "~", <<"b">>)     \* what set_cell is called with

None == [none |-> TRUE]

\* coordinates below, inside and beyond every grid
XCoords == (0 - 1) .. MaxWidth
YCoords == (0 - 1) .. MaxHeight

\* rectangles (x1, y1, x2, y2): one cell, a block, one reaching past every
\* side, one reaching past two sides, two wholly outside, an inverted one,
\* a row
Rects ==
    { <<0, 0, 0, 0>>, <<0, 0, 1, 1>>, <<0 - 1, 0 - 1, MaxWidth, MaxHeight>>,
      <<1, 1, MaxWidth, MaxHeight>>, <<MaxWidth, MaxHeight, MaxWidth + 1, MaxHeight + 1>>,
      <<0 - 1, 0, 0 - 1, 1>>, <<1, 0, 0, 1>>, <<0, 1, 1, 1>> }

\* 0 <= y < self.height and 0 <= x < self.width
InRange(g, x, y) == 0 <= y /\ y < g.height /\ 0 <= x /\ x < g.width

get_cell(g, x, y) == IF InRange(g, x, y) THEN g.cells[y + 1][x + 1] ELSE None

Call(g, op, a) == [op |-> op, args |-> a, width |-> g.width, height |-> g.height, cells |-> g.cells]

\* the cells after `self.cells[y][x] = c` for y in range(ylo, yhi), x in range(xlo, xhi)
Assigned(cells, xlo, xhi, ylo, yhi, c) ==
    [r \in DOMAIN cells |->
        [k \in DOMAIN cells[r] |->
            IF ylo <= r - 1 /\ r - 1 < yhi /\ xlo <= k - 1 /\ k - 1 < xhi
            THEN c ELSE cells[r][k]]]

Low(a) == IF a > 0 THEN a ELSE 0
High(limit, b) == IF limit < b + 1 THEN limit ELSE b + 1

MapIdle ==
    /\ pc = "map" /\ PipelineIdle /\ CliIdle /\ first = NoModel /\ reader = NotReading

MapKept ==
    /\ UNCHANGED <<pc, orig, sf2, needed, out, alias, warned, file, wrote, back>>
    /\ UNCHANGED cli
    /\ UNCHANGED <<first, reader>>

set_cell ==
    /\ pc = "map"
    /\ \E x \in XCoords, y \in YCoords :
          grid' = [grid EXCEPT
              !.cells = IF InRange(grid, x, y)
                        THEN Assigned(@, x, x + 1, y, y + 1, Marked) ELSE @,
              !.last = Call(grid, "set_cell", <<x, y>>)]
    /\ MapKept

fill ==
    /\ pc = "map"
    /\ grid' = [grid EXCEPT
          !.cells = Assigned(@, 0, grid.width, 0, grid.height, Wall),
          !.last = Call(grid, "fill", << >>)]
    /\ MapKept

\* a fill_rect that takes the rectangle as it is given where it starts
fill_rect_from_origin ==
    /\ pc = "map"
    /\ \E r \in Rects :
          grid' = [grid EXCEPT
              !.cells = Assigned(@, 0, High(grid.width, r[3]), 0, High(grid.height, r[4]), Wall),
              !.last = Call(grid, "fill_rect", r)]
    /\ MapKept

fill_rect ==
    /\ pc = "map"
    /\ \E r \in Rects :
          grid' = [grid EXCEPT
              !.cells = Assigned(@, Low(r[1]), High(grid.width, r[3]),
                                    Low(r[2]), High(grid.height, r[4]), Wall),
              !.last = Call(grid, "fill_rect", r)]
    /\ MapKept

place_tag ==
    /\ pc = "map"
    /\ \E x \in XCoords, y \in YCoords :
          LET cell == get_cell(grid, x, y)
          IN  grid' = [grid EXCEPT
                !.cells = IF cell # None /\ ~(\E k \in DOMAIN cell.tags : cell.tags[k] = "a")
                          THEN Assigned(@, x, x + 1, y, y + 1,
                                        [cell EXCEPT !.tags = Append(@, "a")])
                          ELSE @,
                !.last = Call(grid, "place_tag", <<x, y>>)]
    /\ MapKept

resize ==
    /\ pc = "map"
    /\ \E new_width \in 0 .. MaxWidth, new_height \in 0 .. MaxHeight :
          grid' = [grid EXCEPT
              !.cells = [r \in 1 .. new_height |->
                           [k \in 1 .. new_width |->
                               IF r - 1 < grid.height /\ k - 1 < grid.width
                               THEN grid.cells[r][k] ELSE Ground]],
              !.width = new_width,
              !.height = new_height,
              !.last = Call(grid, "resize", <<new_width, new_height>>)]
    /\ MapKept

pad ==
    /\ pc = "map"
    /\ \E left \in 0 .. 1, top \in 0 .. 1, right \in 0 .. 1, bottom \in 0 .. 1 :
          LET new_width == grid.width + left + right
              new_height == grid.height + top + bottom
          IN  /\ new_width <= MaxWidth /\ new_height <= MaxHeight
              /\ grid' = [grid EXCEPT
                    !.cells = [r \in 1 .. new_height |->
                                 [k \in 1 .. new_width |->
                                     IF InRange(grid, k - 1 - left, r - 1 - top)
                                     THEN grid.cells[r - top][k - left] ELSE Ground]],
                    !.width = new_width,
                    !.height = new_height,
                    !.last = Call(grid, "pad", <<left, top, right, bottom>>)]
    /\ MapKept

\* a Map of the given size with ground everywhere
NewMap(w, h) ==
    [width |-> w, height |-> h, cells |-> [r \in 1 .. h |-> [k \in 1 .. w |-> Ground]],
     last |-> NoCall]

MapInit ==
    /\ MapIdle
    /\ grid \in { NewMap(w, h) : w \in 0 .. MaxWidth, h \in 0 .. MaxHeight }

MapNext == set_cell \/ fill \/ fill_rect \/ place_tag \/ resize \/ pad

MapSpec == MapInit /\ [][MapNext]_vars

-----------------------------------------------------------------------------
(* Vocabulary of the properties.                                           *)

\* subset_sf2 has returned a bank
Returned == out # NoModel

Last(lst) == lst[Len(lst)]

\* the records of a table before its last one
RealPart(lst) == IF lst = << >> THEN << >> ELSE SubSeq(lst, 1, Len(lst) - 1)

\* positions of the real (non-terminal) records of a table
RealIndices(lst) == 0 .. (Len(lst) - 2)

Elems(lst) == {lst[k] : k \in 1 .. Len(lst)}

\* the non-terminal source presets whose <<bank, program>> is wanted
Matching(bank, wanted) ==
    {i \in RealIndices(bank.presets) :
        <<At(bank.presets, i).bank, At(bank.presets, i).preset>> \in wanted}

\* range-by-subtraction: the children of record i end where record i + 1 starts
BagRangeOf(table, i) == Range(At(table, i).bag_idx, At(table, i + 1).bag_idx)
GenRangeOf(bags, b)  == Range(At(bags, b).gen_idx, At(bags, b + 1).gen_idx)

\* record i of `table` holds, in one of its bags, a generator <<oper, amount>>
References(table, bags, gens, i, oper, amount) ==
    \E b \in BagRangeOf(table, i) : \E g \in GenRangeOf(bags, b) :
        At(gens, g).oper = oper /\ At(gens, g).amount = amount

\* the range and referential-bounds invariants of the data model
WellFormed(bank) ==
    /\ \A i \in RealIndices(bank.presets) :
          At(bank.presets, i).bag_idx <= At(bank.presets, i + 1).bag_idx
    /\ Last(bank.presets).bag_idx = Len(bank.preset_bags) - 1
    /\ \A i \in RealIndices(bank.instruments) :
          At(bank.instruments, i).bag_idx <= At(bank.instruments, i + 1).bag_idx
    /\ Last(bank.instruments).bag_idx = Len(bank.inst_bags) - 1
    /\ \A b \in RealIndices(bank.preset_bags) :
          At(bank.preset_bags, b).gen_idx <= At(bank.preset_bags, b + 1).gen_idx
    /\ Last(bank.preset_bags).gen_idx = Len(bank.preset_gens) - 1
    /\ \A b \in RealIndices(bank.inst_bags) :
          At(bank.inst_bags, b).gen_idx <= At(bank.inst_bags, b + 1).gen_idx
    /\ Last(bank.inst_bags).gen_idx = Len(bank.inst_gens) - 1
    /\ \A g \in Indices(bank.preset_gens) :
          At(bank.preset_gens, g).oper = GEN_INSTRUMENT
          => At(bank.preset_gens, g).amount \in RealIndices(bank.instruments)
    /\ \A g \in Indices(bank.inst_gens) :
          At(bank.inst_gens, g).oper = GEN_SAMPLE_ID
          => At(bank.inst_gens, g).amount \in RealIndices(bank.samples)

-----------------------------------------------------------------------------
(* C1: when the wanted set matches no non-terminal preset, subset_sf2      *)
(* still returns a minimal valid bank: the preset, instrument and sample   *)
(* tables hold exactly their terminal record (and the bag, generator and   *)
(* modulator tables their terminal records), and a warning is reported.    *)
C1_NoMatchKeepsSentinels ==
    (Returned /\ Matching(orig, needed) = {}) =>
        /\ warned
        /\ Len(out.presets) = 1 /\ Len(out.instruments) = 1
        /\ Len(out.samples) = 1
        /\ Len(out.preset_bags) = 1 /\ Len(out.inst_bags) = 1
        /\ Len(out.preset_gens) = 1 /\ Len(out.inst_gens) = 1
        /\ Len(out.preset_mods) = 1 /\ Len(out.inst_mods) = 1

(* C2: round trip: parse_sf2, write_sf2 without subsetting, parse_sf2      *)
(* again gives a bank equal record for record to the first parsed bank     *)
(* (bag start indices, sample offsets, PCM blob and metadata included).    *)
C2_RoundTrip ==
    (pc = "reparsed" /\ wrote = "source") => back = orig

(* C3: closure completeness: for an input satisfying the range and         *)
(* referential-bounds invariants, every instrument reference of the        *)
(* output preset generators is the index of a real output instrument and   *)
(* every sample reference of the output instrument generators is the       *)
(* index of a real output sample.                                          *)
C3_ClosureComplete ==
    (Returned /\ WellFormed(orig)) =>
        /\ \A g \in Indices(out.preset_gens) :
              At(out.preset_gens, g).oper = GEN_INSTRUMENT
              => At(out.preset_gens, g).amount \in RealIndices(out.instruments)
        /\ \A g \in Indices(out.inst_gens) :
              At(out.inst_gens, g).oper = GEN_SAMPLE_ID
              => At(out.inst_gens, g).amount \in RealIndices(out.samples)

\* a well-formed bank was subset to fewer instruments and samples, and both
\* kinds of reference were renumbered in the output
C3_Witness ==
    /\ Returned /\ WellFormed(orig)
    /\ Len(out.instruments) = 2 /\ Len(out.samples) = 2
    /\ alias.instruments = <<1>> /\ alias.samples = <<2>>
    /\ \E g \in Indices(out.preset_gens) :
          At(out.preset_gens, g) = SF2Generator(GEN_INSTRUMENT, 0)
    /\ \E g \in Indices(out.inst_gens) :
          At(out.inst_gens, g) = SF2Generator(GEN_SAMPLE_ID, 0)

(* C4: stereo completeness: if a retained sample has a non-zero link to    *)
(* sample P of the source, P is retained too; also for samples retained    *)
(* only as the linked partner of another sample.                           *)
C4_StereoComplete ==
    Returned =>
        \A s \in Elems(alias.samples) :
            At(orig.samples, s).sample_link \in 1 .. (Len(orig.samples) - 2)
            => At(orig.samples, s).sample_link \in Elems(alias.samples)

(* C5: terminal sentinels: the output preset, instrument and sample        *)
(* tables each end with one sentinel whose serialised start index is the   *)
(* length of the child table (preset bags, instrument bags, PCM frames).   *)
C5_SentinelStartsAtChildLength ==
    Returned =>
        /\ out.presets # << >> /\ out.instruments # << >> /\ out.samples # << >>
        /\ PresetToBytes(Last(out.presets)).f[3] = Len(out.preset_bags)
        /\ InstToBytes(Last(out.instruments)).f[1] = Len(out.inst_bags)
        /\ SampleToBytes(Last(out.samples)).f[1] = Len(out.sample_data) \div 2

(* C6: table sizes: the output has no more presets, instruments and        *)
(* samples than the input, terminal records counted on both sides.         *)
C6_TablesNotLonger ==
    Returned =>
        /\ Len(out.presets) <= Len(orig.presets)
        /\ Len(out.instruments) <= Len(orig.instruments)
        /\ Len(out.samples) <= Len(orig.samples)

(* C7: PCM size: the output PCM blob is no longer than the input blob,     *)
(* whatever the frame ranges of the retained samples (overlapping or       *)
(* coinciding ranges included).                                            *)
C7_PcmNotLonger ==
    Returned => Len(out.sample_data) <= Len(orig.sample_data)

(* C8: preset selection: the output presets are exactly the non-terminal   *)
(* source presets whose <<bank, program>> is wanted, once each, in file    *)
(* order, followed by one terminal preset; the source terminal is never    *)
(* selected.                                                               *)
C8_PresetSelection ==
    Returned =>
        /\ alias.presets = Sorted(Matching(orig, needed))
        /\ Len(out.presets) = Cardinality(Matching(orig, needed)) + 1
        /\ \A k \in 1 .. Len(alias.presets) :
              [out.presets[k] EXCEPT !.new_bag_idx = 0] = At(orig.presets, alias.presets[k])
        /\ Last(out.presets).name = EOP

(* C9: minimality: every real output instrument is referenced by an        *)
(* instrument generator in the bag range of a kept preset, and every real  *)
(* output sample is referenced by a sample generator in the bag range of   *)
(* a kept instrument or is the linked partner of such a sample.            *)
C9_ClosureMinimal ==
    Returned =>
        /\ Len(RealPart(out.instruments)) = Len(alias.instruments)
        /\ Len(RealPart(out.samples)) = Len(alias.samples)
        /\ \A i \in Elems(alias.instruments) :
              \E p \in Matching(orig, needed) :
                  References(orig.presets, orig.preset_bags, orig.preset_gens,
                             p, GEN_INSTRUMENT, i)
        /\ \A s \in Elems(alias.samples) :
              \E i \in Elems(alias.instruments) :
                 \E r \in Indices(orig.samples) :
                    /\ References(orig.instruments, orig.inst_bags,
                                  orig.inst_gens, i, GEN_SAMPLE_ID, r)
                    /\ s = r \/ s = At(orig.samples, r).sample_link

\* a preset that does not match references an instrument the output lacks,
\* a source sample is absent too, and one sample is kept only as a partner
C9_Witness ==
    /\ Returned
    /\ \E p \in RealIndices(orig.presets) \ Matching(orig, needed) :
          \E i \in RealIndices(orig.instruments) \ Elems(alias.instruments) :
              References(orig.presets, orig.preset_bags, orig.preset_gens,
                         p, GEN_INSTRUMENT, i)
    /\ Len(alias.instruments) = 1
    /\ Len(alias.samples) = 2
    /\ \E s \in Elems(alias.samples) :
          \A i \in RealIndices(orig.instruments) :
              ~References(orig.instruments, orig.inst_bags, orig.inst_gens,
                          i, GEN_SAMPLE_ID, s)

(* C10: the subsetter never mutates its source: after subset_sf2 returns,  *)
(* every field of every source record, the source PCM blob and metadata    *)
(* are as before the call, and no record object is shared between the      *)
(* source and the output bank.                                             *)
C10_SourceUntouched ==
    Returned => (sf2 = orig /\ alias = NoAlias)

-----------------------------------------------------------------------------
(* Vocabulary of the properties of main, the parser and the scanner.       *)

\* parse_sf2 was called and has ended, one way or the other
ParseEnded == Ran("parse")

\* the warnings main printed, in order
WarningsLogged ==
    LET idx == Sorted({k \in DOMAIN log : log[k].op = "warning"})
    IN  [j \in DOMAIN idx |-> log[idx[j]].arg]

(* C11: parse_sf2 fails, returning no model, whenever the outer chunk tag  *)
(* is not 'RIFF' or the form tag is not 'sfbk'; no list section is parsed  *)
(* before the failure.                                                     *)
C11_BadTagsFail ==
    (ParseEnded /\ (fs.input.riff # "RIFF" \/ fs.input.form # "sfbk")) =>
        /\ sf2 = NoModel
        /\ rc = Raised
        /\ ~Ran("list")

\* an undamaged container with the outer tag RIFX was refused
C11_Witness ==
    /\ ParseEnded /\ sf2 = NoModel
    /\ fs.input.riff = "RIFX" /\ fs.input.form = "sfbk"
    /\ ~HasMisfit(fs.input)

(* C12: parse_sf2 fails, returning no model (not even a partial one),      *)
(* whenever a record chunk of pdta (phdr, pbag, pmod, pgen, inst, ibag,    *)
(* imod, igen, shdr) has a byte length that is no multiple of its record   *)
(* size (38, 4, 10, 4, 22, 4, 10, 4, 46).                                  *)
C12_MisfitFails ==
    (ParseEnded /\ HasMisfit(fs.input)) => (sf2 = NoModel /\ rc = Raised)

\* a container with the right tags was refused for its shdr chunk, which
\* ends one byte short of a record, after the two lists before pdta were read
C12_Witness ==
    /\ ParseEnded /\ sf2 = NoModel
    /\ fs.input.riff = "RIFF" /\ fs.input.form = "sfbk"
    /\ \E k \in DOMAIN fs.input.lists : \E j \in DOMAIN fs.input.lists[k].subs :
          LET c == fs.input.lists[k].subs[j]
          IN  c.id = "shdr" /\ c.size % SHDR_SIZE = SHDR_SIZE - 1
    /\ Ran("list")

(* C13: output is all-or-nothing: the destination is opened for writing    *)
(* only after the input was parsed, the subset built and every table       *)
(* serialised; a failure in parsing, subsetting or record serialisation    *)
(* comes before the destination is opened, so a failed run leaves no       *)
(* partial output file.                                                    *)
C13_AllOrNothing ==
    /\ Ran("open") =>
          /\ Ran("parse") /\ Ran("subset") /\ Ran("serialise")
          /\ FirstRun("parse") < FirstRun("subset")
          /\ FirstRun("subset") < FirstRun("serialise")
          /\ FirstRun("serialise") < FirstRun("open")
          /\ sf2 # NoModel /\ out # NoModel /\ Packs(out)
    /\ ~Ran("open") => file = NoFile
    /\ rc = Raised => file = NoFile
    /\ (pc = "exit" /\ file # NoFile) => (rc = Return(0) /\ file = write_sf2(out))

\* a run that had created the output directory failed while serialising a
\* sample header, and there is no destination file
C13_Witness ==
    /\ pc = "exit" /\ rc = Raised
    /\ Ran("mkdir") /\ out # NoModel /\ ~Packs(out)
    /\ file = NoFile

(* C14: main returns a non-zero exit code when the input path or the MIDI  *)
(* directory does not exist, in both cases before scanning, parsing or     *)
(* writing anything; every other run that reaches the end (dry run and no  *)
(* matching preset included) returns 0.                                    *)
C14_ExitCode ==
    /\ (pc = "exit" /\ (~fs.input_exists \/ ~fs.midi_exists)) =>
          /\ rc.kind = "return" /\ rc.code # 0
          /\ ~Ran("scan") /\ ~Ran("parse") /\ ~Ran("subset")
          /\ ~Ran("mkdir") /\ ~Ran("open") /\ ~Ran("write")
          /\ needed = {} /\ sf2 = NoModel /\ file = NoFile
    /\ (rc.kind = "return" /\ fs.input_exists /\ fs.midi_exists) => rc.code = 0
    /\ (pc = "exit" /\ fs.input_exists /\ fs.midi_exists /\ out # NoModel
         /\ (args.dry_run \/ Ran("write"))) => rc = Return(0)

\* the input exists and the MIDI directory does not: main returned 1 with
\* --extra strings left unread
C14_Witness ==
    /\ pc = "exit" /\ rc = Return(1)
    /\ fs.input_exists /\ ~fs.midi_exists
    /\ args.extra # << >> /\ needed = {}

\* the string is two integer literals with one colon between them
TwoIntegers(str) ==
    /\ Cardinality({k \in DOMAIN str : str[k] = ":"}) = 1
    /\ LET k == CHOOSE j \in DOMAIN str : str[j] = ":"
       IN  IntOk(SubSeq(str, 1, k - 1)) /\ IntOk(SubSeq(str, k + 1, Len(str)))

PairOf(str) ==
    LET k == CHOOSE j \in DOMAIN str : str[j] = ":"
    IN  <<IntValue(SubSeq(str, 1, k - 1)), IntValue(SubSeq(str, k + 1, Len(str)))>>

(* C15: each --extra string 'bank:program' of two integers adds            *)
(* <<bank, program>> to the wanted set; each malformed string (a part      *)
(* that is no integer, fewer or more than two parts) is reported as a      *)
(* warning and skipped; the strings after it are still processed and the   *)
(* run goes on to parsing.                                                 *)
C15_ExtrasSkipMalformed ==
    /\ (pc = "parse" \/ Ran("parse")) =>
          /\ needed = scan_midi_directory(fs.midi_dir) \cup
                       { PairOf(args.extra[k]) :
                           k \in {j \in DOMAIN args.extra : TwoIntegers(args.extra[j])} }
          /\ LET bad == Sorted({j \in DOMAIN args.extra : ~TwoIntegers(args.extra[j])})
             IN  WarningsLogged = [j \in DOMAIN bad |-> args.extra[bad[j]]]
    /\ (pc = "exit" /\ Ran("scan")) => Ran("parse")

\* a malformed string came first and the pair after it was added all the
\* same; the input was then parsed
C15_Witness ==
    /\ Ran("parse") /\ sf2 # NoModel
    /\ args.extra = << <<"x", ":", "1">>, <<"0", ":", "1">> >>
    /\ <<0, 1>> \in needed
    /\ WarningsLogged = << <<"x", ":", "1">> >>

(* C16: if a scanned MIDI file holds a note-on event on channel 9 (status  *)
(* byte 0x99, key, velocity), the wanted set scan_midi_directory returns   *)
(* contains <<128, 0>>, with or without a program change on channel 9 and  *)
(* whatever events and delta-time bytes surround the note-on.              *)
C16_DrumNoteAddsDrumBank ==
    (Ran("scan") /\ \E k \in MidFiles(fs.midi_dir) : HasDrumNote(fs.midi_dir[k]))
        => <<DRUM_BANK, 0>> \in needed

(* C17: metadata pass-through: for any wanted set (one that matches no     *)
(* preset included) the metadata map of the subset has the same tags in    *)
(* the same order with the same payload bytes as the source map, and       *)
(* write_sf2 emits each payload unchanged.                                 *)
C17_MetadataPassThrough ==
    /\ Returned => out.info_chunks = orig.info_chunks
    /\ (pc \in {"written", "reparsed"} /\ wrote = "subset") =>
          /\ file.lists[1].type = "INFO"
          /\ Len(file.lists[1].subs) = Len(orig.info_chunks)
          /\ \A k \in DOMAIN orig.info_chunks :
                /\ file.lists[1].subs[k].id = orig.info_chunks[k].id
                /\ file.lists[1].subs[k].data = orig.info_chunks[k].data
                /\ file.lists[1].subs[k].size = Len(orig.info_chunks[k].data)

\* no preset matched, and the bank written all the same carries the
\* metadata, one payload of odd length ending in a zero byte
C17_Witness ==
    /\ pc = "written" /\ wrote = "subset" /\ warned
    /\ Len(out.info_chunks) = 2
    /\ Len(out.info_chunks[2].data) % 2 = 1
    /\ Last(out.info_chunks[2].data) = 0
    /\ file.lists[1].subs[2].pad = 1

(* C18: chunk write/read inverse: for every 4-character tag and every      *)
(* payload, of even or odd length, write_chunk emits the tag, the payload  *)
(* length as 4 little-endian bytes, the payload, and one zero pad byte     *)
(* exactly when the length is odd; the parser's header read, payload read  *)
(* and pad skip return the same tag and payload and consume exactly the    *)
(* bytes emitted.                                                          *)
C18_ChunkRoundTrip ==
    /\ pc \in {"emitted", "header", "payload", "read"} =>
          LET n == Len(chunk.data)
          IN  /\ Len(file) = 8 + n + (n % 2)
              /\ \A k \in 1 .. 4 : file[k] = Ascii[chunk.tag[k]]
              /\ \A k \in 5 .. 8 : file[k] \in 0 .. 255
              /\ file[5] + 256 * file[6] + 65536 * file[7] + 16777216 * file[8] = n
              /\ SubSeq(file, 9, 8 + n) = chunk.data
              /\ n % 2 = 1 => file[Len(file)] = 0
    /\ pc = "read" =>
          /\ back.id = chunk.tag
          /\ back.size = Len(chunk.data)
          /\ back.data = chunk.data
          /\ back.pos = Len(file)

\* a payload of 257 bytes, its length in two non-zero bytes, was written
\* with a pad byte and read back to the last byte
C18_Witness ==
    /\ pc = "read"
    /\ Len(chunk.data) = 257 /\ file[5] = 1 /\ file[6] = 1
    /\ Len(file) = 266
    /\ back.data = chunk.data /\ back.pos = 266

\* position in the output of the source record with index `old`
NewIndexOf(kept, old) == (CHOOSE k \in DOMAIN kept : kept[k] = old) - 1

\* the generators of bag b of a table that ends with a terminal bag
GensOfBag(bags, gens, b) ==
    Slice(gens, At(bags, b).gen_idx, At(bags, b + 1).gen_idx)
ModsOfBag(bags, mods, b) ==
    Slice(mods, At(bags, b).mod_idx, At(bags, b + 1).mod_idx)

\* a source generator as the output must hold it: a reference `oper` to a
\* kept record renumbered, anything else unchanged
Renumbered(gen, oper, kept) ==
    IF gen.oper = oper /\ gen.amount \in Elems(kept)
    THEN SF2Generator(gen.oper, NewIndexOf(kept, gen.amount))
    ELSE SF2Generator(gen.oper, gen.amount)

\* the output bags from `nb` on are the source bags sb .. se - 1, copied
BagsCopied(obags, ogens, nb, sbags, sgens, sb, se, oper, kept) ==
    /\ nb + (se - sb) <= Len(obags) - 1
    /\ \A j \in 0 .. (se - sb - 1) :
          GensOfBag(obags, ogens, nb + j) =
              [g \in DOMAIN GensOfBag(sbags, sgens, sb + j) |->
                  Renumbered(GensOfBag(sbags, sgens, sb + j)[g], oper, kept)]

(* C19: preset copy: for every kept preset at source position i the        *)
(* output holds, from that preset's new bag start on, one bag for each     *)
(* source bag of the range [presets[i].bag_idx, presets[i+1].bag_idx) of   *)
(* that same position, with the same generators in the same order, each    *)
(* instrument reference replaced by the instrument's new index; also when  *)
(* two source presets have identical field values.                         *)
C19_PresetBagsCopied ==
    Returned =>
        \A k \in DOMAIN alias.presets :
            BagsCopied(out.preset_bags, out.preset_gens, out.presets[k].new_bag_idx,
                       orig.preset_bags, orig.preset_gens,
                       At(orig.presets, alias.presets[k]).bag_idx,
                       At(orig.presets, alias.presets[k] + 1).bag_idx,
                       GEN_INSTRUMENT, alias.instruments)

(* C20: instrument copy: the kept instruments appear in ascending source   *)
(* order; for each the output holds one bag per source bag of its range,   *)
(* with the same generators and modulators in the same order (modulators   *)
(* unchanged, sample references in the sample map renumbered); one         *)
(* terminal instrument, one terminal bag, one zero generator and one zero  *)
(* modulator follow.                                                       *)
C20_InstrumentBagsCopied ==
    Returned =>
        /\ \A k \in DOMAIN alias.instruments :
              /\ k > 1 => alias.instruments[k - 1] < alias.instruments[k]
              /\ out.instruments[k].name = At(orig.instruments, alias.instruments[k]).name
              /\ BagsCopied(out.inst_bags, out.inst_gens, out.instruments[k].new_bag_idx,
                            orig.inst_bags, orig.inst_gens,
                            At(orig.instruments, alias.instruments[k]).bag_idx,
                            At(orig.instruments, alias.instruments[k] + 1).bag_idx,
                            GEN_SAMPLE_ID, alias.samples)
              /\ \A j \in 0 .. (At(orig.instruments, alias.instruments[k] + 1).bag_idx
                                 - At(orig.instruments, alias.instruments[k]).bag_idx - 1) :
                    ModsOfBag(out.inst_bags, out.inst_mods, out.instruments[k].new_bag_idx + j)
                    = ModsOfBag(orig.inst_bags, orig.inst_mods,
                                At(orig.instruments, alias.instruments[k]).bag_idx + j)
        /\ Len(out.instruments) = Len(alias.instruments) + 1
        /\ Last(out.instruments).name = EOI
        /\ Last(out.instruments).new_bag_idx = Len(out.inst_bags) - 1
        /\ Last(out.inst_bags) = SF2Bag(Len(out.inst_gens) - 1, Len(out.inst_mods) - 1)
        /\ Last(out.inst_gens) = SF2Generator(0, 0)
        /\ Last(out.inst_mods) = SF2Modulator(0, 0, 0, 0, 0)

-----------------------------------------------------------------------------
(* Vocabulary of the properties of the sample table and the PCM blob.      *)

\* the source header of the k-th output sample, as parse_sf2 returned it
SourceOf(k) == At(orig.samples, alias.samples[k])

\* the fields to_bytes serialises for the k-th output sample
Serialised(k) == SampleToBytes(out.samples[k]).f

\* blob[start*2 : end*2]
FramesOf(blob, start, end) == Slice(blob, start * 2, end * 2)

RECURSIVE ConcatFrames(_, _, _)
ConcatFrames(blob, sorted, k) ==
    IF k > Len(sorted) THEN << >>
    ELSE FramesOf(blob, At(orig.samples, sorted[k]).start, At(orig.samples, sorted[k]).end)
         \o ConcatFrames(blob, sorted, k + 1)

(* C21: sample offset shift: for every retained sample, the serialised     *)
(* start, end, loop start and loop end all equal the source offsets plus   *)
(* one delta, delta = new start - old start; so the serialised end minus   *)
(* start equals the source end minus start.                                *)
C21_OffsetsShiftByOneDelta ==
    Returned =>
        \A k \in 1 .. Len(alias.samples) :
            LET delta == Serialised(k)[1] - SourceOf(k).start
            IN  /\ Serialised(k)[2] = SourceOf(k).end + delta
                /\ Serialised(k)[3] = SourceOf(k).loop_start + delta
                /\ Serialised(k)[4] = SourceOf(k).loop_end + delta
                /\ Serialised(k)[2] - Serialised(k)[1] = SourceOf(k).end - SourceOf(k).start

(* C22: PCM compaction: the output blob is the concatenation, in ascending *)
(* source index order, of the source byte ranges [start*2, end*2) of the   *)
(* retained samples, and for each retained sample the output bytes at      *)
(* [new_start*2, new_end*2) are the source bytes at [start*2, end*2).      *)
C22_PcmCompacted ==
    Returned =>
        /\ out.sample_data =
              ConcatFrames(orig.sample_data, Sorted(Elems(alias.samples)), 1)
        /\ \A k \in 1 .. Len(alias.samples) :
              FramesOf(out.sample_data, Serialised(k)[1], Serialised(k)[2])
              = FramesOf(orig.sample_data, SourceOf(k).start, SourceOf(k).end)

\* every sample_link of the bank is an index of its sample table
LinksInRange(bank) ==
    \A i \in Indices(bank.samples) : At(bank.samples, i).sample_link \in Indices(bank.samples)

(* C23: linked-sample rewrite: for every retained real sample, its         *)
(* linked-sample index in the output is the new index of its source        *)
(* partner when that partner was retained, and 0 otherwise; when all       *)
(* links of the input are in range, the reset to 0 is never taken for a    *)
(* sample whose source link is non-zero.                                   *)
C23_LinksRewritten ==
    Returned =>
        \A k \in 1 .. Len(alias.samples) :
            /\ out.samples[k].sample_link =
                  IF SourceOf(k).sample_link \in Elems(alias.samples)
                  THEN NewIndexOf(alias.samples, SourceOf(k).sample_link)
                  ELSE 0
            /\ (LinksInRange(orig) /\ SourceOf(k).sample_link # 0)
                  => SourceOf(k).sample_link \in Elems(alias.samples)

\* the source indices a call gave a new index to (new_index is -1 until then)
Mapped(table) == {i \in Indices(table) : At(table, i).new_index # 0 - 1}

\* the fields of a sample header subset_sf2 never assigns
SampleHeader(s) ==
    <<s.name, s.start, s.end, s.loop_start, s.loop_end, s.sample_rate,
      s.original_pitch, s.pitch_correction, s.sample_type>>

(* C24: the index maps are order-preserving bijections: the sample map and *)
(* the instrument map each map the kept source indices one-to-one onto     *)
(* 0 .. k-1 (k the number kept), i < j implies new(i) < new(j), and the    *)
(* record at output position new(i) is the copy of source record i.        *)
C24_IndexMapsOrderPreserving ==
    Returned =>
        /\ {At(sf2.samples, i).new_index : i \in Mapped(sf2.samples)}
              = 0 .. (Cardinality(Mapped(sf2.samples)) - 1)
        /\ \A i, j \in Mapped(sf2.samples) :
              i < j => At(sf2.samples, i).new_index < At(sf2.samples, j).new_index
        /\ \A i \in Mapped(sf2.samples) :
              SampleHeader(At(out.samples, At(sf2.samples, i).new_index))
              = SampleHeader(At(orig.samples, i))
        /\ {At(sf2.instruments, i).new_index : i \in Mapped(sf2.instruments)}
              = 0 .. (Cardinality(Mapped(sf2.instruments)) - 1)
        /\ \A i, j \in Mapped(sf2.instruments) :
              i < j => At(sf2.instruments, i).new_index < At(sf2.instruments, j).new_index
        /\ \A i \in Mapped(sf2.instruments) :
              LET new == At(out.instruments, At(sf2.instruments, i).new_index)
              IN  new.name = At(orig.instruments, i).name
                  /\ new.bag_idx = At(orig.instruments, i).bag_idx

\* samples 1 and 2 of three were kept and became 0 and 1, instrument 1 of two
\* became 0
C24_Witness ==
    /\ Returned
    /\ Mapped(sf2.samples) = {1, 2}
    /\ At(sf2.samples, 2).new_index = 1
    /\ Mapped(sf2.instruments) = {1}
    /\ At(sf2.instruments, 1).new_index = 0
    /\ Len(out.samples) = 3 /\ Len(out.instruments) = 2

\* 1 when a payload of n bytes has to be padded to even
PadOf(n) == n % 2

RECURSIVE ClaimedTotal(_, _)
ClaimedTotal(lists, k) ==
    IF k > Len(lists) THEN 0
    ELSE 8 + ListPayloadBytes(lists[k]) + PadOf(ListPayloadBytes(lists[k]))
         + ClaimedTotal(lists, k + 1)

(* C25: writer length accounting: the outer length field written by        *)
(* write_sf2 equals the number of bytes written after the 8-byte outer     *)
(* header (4 for the form tag plus, for each of the three list chunks, 8   *)
(* header bytes + payload + pad byte if the payload is odd), and every     *)
(* list chunk and sub-chunk length field equals the byte count of the      *)
(* payload emitted for it.                                                 *)
C25_LengthFieldsCountBytes ==
    (pc = "written") =>
        /\ Len(file.lists) = 3
        /\ file.size = BytesAfterHeader(file)
        /\ file.size = 4 + ClaimedTotal(file.lists, 1)
        /\ \A k \in DOMAIN file.lists :
              /\ file.lists[k].size = ListPayloadBytes(file.lists[k])
              /\ file.lists[k].pad = PadOf(file.lists[k].size)
              /\ \A j \in DOMAIN file.lists[k].subs :
                    /\ file.lists[k].subs[j].size = PayloadBytes(file.lists[k].subs[j])
                    /\ file.lists[k].subs[j].pad = PadOf(file.lists[k].subs[j].size)

\* a subset was written whose smpl payload and whose INAM entry have an odd
\* number of bytes, each followed by its pad byte
C25_Witness ==
    /\ pc = "written" /\ wrote = "subset"
    /\ file.lists[2].type = "sdta"
    /\ file.lists[2].subs[1].size = 7 /\ file.lists[2].subs[1].pad = 1
    /\ file.lists[1].subs[2].size = 3 /\ file.lists[1].subs[2].pad = 1
    /\ file.lists[3].subs[9].size = 3 * SHDR_SIZE

\* two banks with equal record values in every table and equal PCM blobs
SameOutput(a, b) ==
    /\ a.sample_data = b.sample_data
    /\ a.samples = b.samples /\ a.instruments = b.instruments /\ a.presets = b.presets
    /\ a.inst_bags = b.inst_bags /\ a.inst_gens = b.inst_gens /\ a.inst_mods = b.inst_mods
    /\ a.preset_bags = b.preset_bags /\ a.preset_gens = b.preset_gens
    /\ a.preset_mods = b.preset_mods

(* C26: subsetting is repeatable: calling subset_sf2 twice in a row on the *)
(* same parsed model with the same wanted set produces two outputs with    *)
(* equal record values in every table (equal linked-sample indices and     *)
(* sample offsets in particular) and equal PCM blobs.                      *)
C26_SubsetRepeatable ==
    (pc = "resubset") => SameOutput(first, out)

\* where container f has an sm24 sub-chunk in its sample-data list
Sm24At(f) ==
    { p \in (DOMAIN f.lists) \X (1 .. 4) :
        /\ f.lists[p[1]].type = "sdta"
        /\ p[2] \in DOMAIN f.lists[p[1]].subs
        /\ f.lists[p[1]].subs[p[2]].id = "sm24" }

HasSm24(f) == Sm24At(f) # {}

Sm24Payload(f) == LET p == CHOOSE q \in Sm24At(f) : TRUE IN f.lists[p[1]].subs[p[2]].data

(* C27: the optional sm24 sub-chunk of the sample-data list is copied      *)
(* through unchanged: when the input contains it, the parsed model holds   *)
(* its payload byte for byte, and it is still present, unchanged, in the   *)
(* file produced by parsing and re-serializing that model.                 *)
C27_Sm24PassedThrough ==
    /\ (pc = "parsed" /\ HasSm24(fs.input)) =>
          orig.sample_data_24 = Sm24Payload(fs.input)
    /\ (wrote = "source" /\ HasSm24(fs.input)) =>
          /\ HasSm24(file)
          /\ Sm24Payload(file) = Sm24Payload(fs.input)

\* the effects of main on the destination
WriteOps == {"mkdir", "serialise", "open", "write"}

(* C28: dry-run never writes: in every run of main with --dry-run set the  *)
(* output directory is not created and the destination is neither opened   *)
(* nor written, and the run returns 0 once the subset has been computed    *)
(* and its counts reported (a return of 0 comes only after that).          *)
C28_DryRunNeverWrites ==
    args.dry_run =>
        /\ \A k \in DOMAIN log : log[k].op \notin WriteOps
        /\ file = NoFile /\ wrote = "none"
        /\ pc \notin {"mkdir", "serialise", "open", "write", "report"}
        /\ (pc = "exit" /\ Ran("subset") /\ Returned) => rc = Return(0)
        /\ (rc = Return(0)) => (pc = "exit" /\ Ran("subset") /\ Returned)

\* a dry run on an existing input ended after the subset was computed
C28_Witness ==
    /\ args.dry_run /\ pc = "exit" /\ rc = Return(0)
    /\ Ran("parse") /\ Ran("subset") /\ Len(out.presets) > 1
    /\ file = NoFile /\ ~Ran("mkdir") /\ ~Ran("open") /\ ~Ran("write")

IsSection(c) == c.id = "LIST" /\ c.type \in KnownLists

\* the bank the three named sections of container f hold
Sections(f) == ParseLists(SF2File, SelectSeq(f.lists, IsSection), 1)

(* C29: parser chunk framing: after parse_sf2 has processed any top-level  *)
(* chunk (a non-LIST chunk, or a LIST chunk of type INFO, sdta, pdta or    *)
(* any other type), the read position is at the end of that chunk (chunk   *)
(* start + chunk size + pad byte if the size is odd), so the bytes inside  *)
(* an unrecognized list are never interpreted as top-level chunks and the  *)
(* three named sections are found whatever their order.                    *)
C29_ChunksFramed ==
    /\ (reader.last # NoRead) =>
          /\ reader.last.after
                = reader.last.start + reader.last.size + (reader.last.size % 2)
          /\ ~reader.last.inside
    /\ (pc = "parsed" /\ reader # NotReading) => sf2 = Sections(fs.input)

\* len(cells) == height and every row has width cells
Shape ==
    /\ Len(grid.cells) = grid.height
    /\ \A r \in DOMAIN grid.cells : Len(grid.cells[r]) = grid.width

\* the last call was op, at a cell outside the grid it was made on
OutsideCall(op) ==
    /\ grid.last.op = op
    /\ ~InRange(grid.last, grid.last.args[1], grid.last.args[2])

\* one of the corners of the last fill_rect lies outside the grid
RectOutOfRange ==
    /\ grid.last.op = "fill_rect"
    /\ \/ ~InRange(grid.last, grid.last.args[1], grid.last.args[2])
       \/ ~InRange(grid.last, grid.last.args[3], grid.last.args[4])

\* cell (x, y) lies in the rectangle of the last fill_rect
InRect(x, y) ==
    /\ grid.last.args[1] <= x /\ x <= grid.last.args[3]
    /\ grid.last.args[2] <= y /\ y <= grid.last.args[4]

Untouched == grid.cells = grid.last.cells

Occurrences(tags, t) == Cardinality({k \in DOMAIN tags : tags[k] = t})

\* set_cell and place_tag outside the grid change no cell
PointCallsIgnored == (OutsideCall("set_cell") \/ OutsideCall("place_tag")) => Untouched

GetCellNone ==
    \A x \in XCoords, y \in YCoords : ~InRange(grid, x, y) => get_cell(grid, x, y) = None

\* after place_tag on a cell of the grid the tag is there once, as the last
\* tag if it was not there before
TagPlacedOnce ==
    (grid.last.op = "place_tag" /\ ~OutsideCall("place_tag")) =>
        LET x == grid.last.args[1]
            y == grid.last.args[2]
            was == get_cell(grid.last, x, y)
            now == get_cell(grid, x, y)
        IN  /\ Occurrences(now.tags, "a") = 1
            /\ now.tags = (IF Occurrences(was.tags, "a") = 0 THEN Append(was.tags, "a") ELSE was.tags)

(* C30 as stated: the grid always has exactly height rows of exactly width *)
(* cells; set_cell, fill_rect and place_tag with out-of-range coordinates  *)
(* change no cell; get_cell returns None out of range; place_tag never     *)
(* makes a tag name appear twice in the cell it is applied to.             *)
C30_MapGridShape ==
    (pc = "map") =>
        /\ Shape
        /\ PointCallsIgnored
        /\ RectOutOfRange => Untouched
        /\ GetCellNone
        /\ TagPlacedOnce

(* C30, amended: as above, but fill_rect clips its rectangle to the grid:  *)
(* it sets exactly the cells of the rectangle that lie inside the grid and *)
(* changes no cell when the rectangle lies wholly outside.                 *)
C30_MapGridShapeClipped ==
    (pc = "map") =>
        /\ Shape
        /\ PointCallsIgnored
        /\ (grid.last.op = "fill_rect") =>
              /\ grid.width = grid.last.width /\ grid.height = grid.last.height
              /\ \A x \in 0 .. (grid.width - 1), y \in 0 .. (grid.height - 1) :
                    get_cell(grid, x, y) = (IF InRect(x, y) THEN Wall
                                            ELSE get_cell(grid.last, x, y))
        /\ GetCellNone
        /\ TagPlacedOnce

\* fill_rect was called with corners outside a 2 x 2 grid of marked cells,
\* one of them tagged: it filled one cell and left three
C30_Witness ==
    /\ pc = "map" /\ RectOutOfRange
    /\ grid.last.args = <<1, 1, MaxWidth, MaxHeight>>
    /\ grid.last.width = 2 /\ grid.last.height = 2
    /\ get_cell(grid.last, 1, 1) = Marked
    /\ get_cell(grid, 1, 1) = Wall
    /\ get_cell(grid, 0, 0) = [Marked EXCEPT !.tags = <<"b", "a">>]
    /\ get_cell(grid, 1, 0) = Ground

====
